---------------------------- MODULE Spec2Model ----------------------------
(***************************************************************************)
(* Portal automation engine of the AT&T unlock bot: the shared browser     *)
(* session manager (BrowserAutomation), the submission flow (ATTFlow) and  *)
(* the status flow (StatusChecker).                                        *)
(*                                                                         *)
(* Every awaited Playwright call is a point where the call either returns  *)
(* or rejects; the portal's page content is chosen by the environment.     *)
(***************************************************************************)
EXTENDS Integers, Sequences, FiniteSets, TLC

(* ------------------------------ bounds -------------------------------- *)

\* Concurrent callers of the automation engine.
NProcs == 2
\* Invocations (flow calls or createPage calls) started in one behaviour.
MaxInvocations == 2
\* Candidates of one selector list that the portal page shows at a time.
MaxPresent == 1
\* CAPTCHA markers on a page, and marker checks that raise, at a time.
MaxMarkers == 1

Procs == 1..NProcs

(* ----------------------------- constants ------------------------------ *)

None == "none"
Null == "null"
NoResult == [none |-> TRUE]
NoCall == [selectors |-> <<>>]

\* Any rejection of an awaited Playwright call (navigation, timeout, closed page).
TransportError == "Timeout 30000ms exceeded."
LaunchError == "browserType.launch: failed"
NewContextError == "browser.newContext: failed"
NewPageError == "context.newPage: failed"
RouteError == "page.route: Target page, context or browser has been closed"

VARIABLES
  browser,      \* BrowserAutomation.browser: 0 (null) or the id of a launched browser
  context,      \* BrowserAutomation.context: 0 (null) or the id of a created context
  launched,     \* browsers launched so far (their ids are 1..launched)
  contexts,     \* contexts created so far (their ids are 1..contexts)
  invocations,  \* invocations started so far
  pc,           \* where each caller's invocation stands
  kind,         \* "submit", "status", "open" (a bare createPage caller) or None
  request,      \* the invocation's input record
  ret,          \* createPage's outcome: None (pending), "ok" or the error thrown
  pageMade,     \* context.newPage() produced a page in this invocation
  pageCtx,      \* the context that page was created from (0: none)
  page,         \* the flow's local variable `page`: FALSE is null
  closeCalls,   \* closePage calls on this invocation's page
  pageOpen,     \* the invocation's page exists and is not closed
  pageCaptcha,  \* a known CAPTCHA marker is on the page now
  checkThrew,   \* a marker check raised inside the catch block's detectCaptcha call
  bodyText,     \* the body text the last textContent('body') call read
  formLeft,     \* page.$$('form, ...') found elements in extractConfirmationDetails
  extractedAt,  \* Date.now() read by extractConfirmationDetails (-1: not read)
  steps,        \* the steps of the flow entered so far, in order
  ops,          \* the page operations of the latest step (or catch block) that returned
  acted,        \* the kinds of action (navigation, click, fill, ...) done on the page
  err,          \* the error caught at the flow boundary (None: none)
  thrown,       \* an error that left the flow call (None: none)
  result,       \* the record the flow returns (NoResult: none yet)
  landedAt,     \* the URL the page was on when the flow's page.goto settled (None: not yet)
  update,       \* the bot update or API request a front-end handler is serving
  handled,      \* the bot's command handlers and callback actions run for the update
  replies,      \* the messages the bot sent, or the HTTP status the API answered, for it
  stored,       \* MemStorage.unlockRequests: the unlock requests created, in order
  resolver,     \* a waitForSelectorWithFallbacks call followed wait by wait: its frame
  torn,         \* the browsers and the contexts whose close() returned
  systemLogs,   \* MemStorage.systemLogs: the logs held, in the map's insertion order
  logsCreated   \* how many logs createLog has made

vars == <<browser, context, launched, contexts, invocations, pc, kind,
          request, ret, pageMade, pageCtx, page, closeCalls, pageOpen,
          pageCaptcha, checkThrew, bodyText, formLeft, extractedAt, steps,
          ops, acted, err, thrown, result, landedAt, update, handled, replies,
          stored, resolver, torn, systemLogs, logsCreated>>

logVars == <<systemLogs, logsCreated>>
shared == <<browser, context, launched, contexts, torn>>
pageVars == <<pageCaptcha, checkThrew, bodyText, formLeft, extractedAt, landedAt>>
frontVars == <<update, handled, replies, stored>>
flowVars == <<steps, ops, acted, err, thrown, result>>

(* ------------------------- page session manager ----------------------- *)

\* An invocation's own variables as they are when the call begins.
FreshInvocation(p, k, r) ==
  /\ kind' = [kind EXCEPT ![p] = k]
  /\ request' = [request EXCEPT ![p] = r]
  /\ ret' = [ret EXCEPT ![p] = None]
  /\ pageMade' = [pageMade EXCEPT ![p] = FALSE]
  /\ page' = [page EXCEPT ![p] = FALSE]
  /\ closeCalls' = [closeCalls EXCEPT ![p] = 0]
  /\ pageOpen' = [pageOpen EXCEPT ![p] = FALSE]
  /\ pageCaptcha' = [pageCaptcha EXCEPT ![p] = FALSE]
  /\ checkThrew' = [checkThrew EXCEPT ![p] = FALSE]
  /\ bodyText' = [bodyText EXCEPT ![p] = None]
  /\ formLeft' = [formLeft EXCEPT ![p] = FALSE]
  /\ extractedAt' = [extractedAt EXCEPT ![p] = -1]
  /\ steps' = [steps EXCEPT ![p] = <<>>]
  /\ ops' = [ops EXCEPT ![p] = <<>>]
  /\ acted' = [acted EXCEPT ![p] = {}]
  /\ err' = [err EXCEPT ![p] = None]
  /\ thrown' = [thrown EXCEPT ![p] = None]
  /\ result' = [result EXCEPT ![p] = NoResult]
  /\ landedAt' = [landedAt EXCEPT ![p] = None]

\* createPage up to its first await: `if (!this.context) await this.initialize()`
\* starts chromium.launch; otherwise `this.context!.newPage()` starts on the
\* context the field holds now.
CallCreatePage(p) ==
  IF context = 0
    THEN /\ pc' = [pc EXCEPT ![p] = "launch"]
         /\ pageCtx' = [pageCtx EXCEPT ![p] = 0]
    ELSE /\ pc' = [pc EXCEPT ![p] = "newPage"]
         /\ pageCtx' = [pageCtx EXCEPT ![p] = context]

\* createPage rejects with e: nothing is returned to the caller.
CreatePageThrows(p, e) ==
  /\ pc' = [pc EXCEPT ![p] = "created"]
  /\ ret' = [ret EXCEPT ![p] = e]

\* initialize: `this.browser = await chromium.launch(...)` settles. On success the
\* field is assigned and `this.browser.newContext(...)` starts on that browser; on
\* failure initialize logs and rethrows.
LaunchDone(p) ==
  /\ pc[p] = "launch"
  /\ \/ /\ launched' = launched + 1
        /\ browser' = launched + 1
        /\ pc' = [pc EXCEPT ![p] = "newContext"]
        /\ UNCHANGED ret
     \/ /\ CreatePageThrows(p, LaunchError)
        /\ UNCHANGED <<launched, browser>>
  /\ UNCHANGED <<resolver, logVars, frontVars, context, contexts, torn, invocations, kind, request,
                 pageMade, pageCtx, page, closeCalls, pageOpen, pageVars, flowVars>>

\* initialize: `this.context = await this.browser.newContext(...)` settles. On
\* success the field is assigned, initialize returns and createPage goes on to
\* `this.context!.newPage()`.
NewContextDone(p) ==
  /\ pc[p] = "newContext"
  /\ \/ /\ contexts' = contexts + 1
        /\ context' = contexts + 1
        /\ pc' = [pc EXCEPT ![p] = "newPage"]
        /\ pageCtx' = [pageCtx EXCEPT ![p] = contexts + 1]
        /\ UNCHANGED ret
     \/ /\ CreatePageThrows(p, NewContextError)
        /\ UNCHANGED <<contexts, context, pageCtx>>
  /\ UNCHANGED <<resolver, logVars, frontVars, browser, launched, torn, invocations, kind, request,
                 pageMade, page, closeCalls, pageOpen, pageVars, flowVars>>

\* createPage: `const page = await this.context!.newPage()` settles; then
\* setDefaultTimeout and `page.route(...)` starts.
NewPageDone(p) ==
  /\ pc[p] = "newPage"
  /\ \/ /\ pageMade' = [pageMade EXCEPT ![p] = TRUE]
        /\ pageOpen' = [pageOpen EXCEPT ![p] = TRUE]
        /\ pc' = [pc EXCEPT ![p] = "route"]
        /\ UNCHANGED ret
     \/ /\ CreatePageThrows(p, NewPageError)
        /\ UNCHANGED <<pageMade, pageOpen>>
  /\ UNCHANGED <<resolver, logVars, frontVars, shared, invocations, kind, request, pageCtx, page,
                 closeCalls, pageVars, flowVars>>

\* createPage: `await page.route('**/*', ...)` settles; `return page`.
RouteDone(p) ==
  /\ pc[p] = "route"
  /\ \/ /\ pc' = [pc EXCEPT ![p] = "created"]
        /\ ret' = [ret EXCEPT ![p] = "ok"]
     \/ CreatePageThrows(p, RouteError)
  /\ UNCHANGED <<resolver, logVars, frontVars, shared, invocations, kind, request, pageMade, pageCtx,
                 page, closeCalls, pageOpen, pageVars, flowVars>>

\* closePage: `await page.close()` inside try/catch; a failure is logged and
\* swallowed. TRUE: close() returned, FALSE: it raised.
ClosePage(p, closed) ==
  /\ closeCalls' = [closeCalls EXCEPT ![p] = @ + 1]
  /\ pageOpen' = [pageOpen EXCEPT ![p] = IF closed THEN FALSE ELSE @]

(* --------------------- element resolver, CAPTCHA detector ------------- *)

\* The union of the sets of S, enumerated.
Flat(S) == {x \in UNION S : TRUE}

Range(seq) == {seq[i] : i \in 1..Len(seq)}

\* Variant: the loop goes on after a candidate appeared; the last one wins.
RECURSIVE waitForSelectorWithFallbacks_Last(_, _)
waitForSelectorWithFallbacks_Last(selectors, appears) ==
  IF selectors = <<>> THEN Null
  ELSE IF waitForSelectorWithFallbacks_Last(Tail(selectors), appears) # Null
    THEN waitForSelectorWithFallbacks_Last(Tail(selectors), appears)
  ELSE IF Head(selectors) \in appears THEN Head(selectors)
  ELSE Null

\* Variant: a wait that raises is not caught.
waitForSelectorWithFallbacks_NoCatch(selectors, appears) ==
  IF selectors = <<>> THEN Null
  ELSE IF Head(selectors) \in appears THEN Head(selectors)
  ELSE TransportError

\* waitForSelectorWithFallbacks: the candidates are awaited one after another;
\* a wait that raises (the candidate did not appear in its slice) is caught and
\* the next one is tried. `appears` are the candidates whose wait returns.
RECURSIVE waitForSelectorWithFallbacks(_, _)
waitForSelectorWithFallbacks(selectors, appears) ==
  IF selectors = <<>> THEN Null
  ELSE IF Head(selectors) \in appears THEN Head(selectors)
  ELSE waitForSelectorWithFallbacks(Tail(selectors), appears)

\* The waits a resolve call makes, in order: it stops at the first that returns.
RECURSIVE WaitsFrom(_, _)
WaitsFrom(selectors, appears) ==
  IF selectors = <<>> THEN <<>>
  ELSE << "waitForSelector:" \o Head(selectors) >>
         \o (IF Head(selectors) \in appears THEN <<>>
             ELSE WaitsFrom(Tail(selectors), appears))

\* What the portal page may show of one candidate list.
PresentSets(selectors) ==
  {S \in SUBSET Range(selectors) : Cardinality(S) <= MaxPresent}

\* The selectors a resolve call may return on some page (Null: none appeared).
Resolved(selectors) ==
  {waitForSelectorWithFallbacks(selectors, S) : S \in PresentSets(selectors)}

captchaSelectors ==
  << "iframe[src*=\"recaptcha\"]", "[data-captcha]", ".captcha", "#captcha",
     "img[src*=\"captcha\"]", "[class*=\"captcha\"]", "[id*=\"captcha\"]" >>

\* Variant: only the first marker is looked for.
detectCaptcha_FirstOnly(onPage, raising) ==
  Head(captchaSelectors) \notin raising /\ Head(captchaSelectors) \in onPage

\* Variant: a check that raises ends the loop.
RECURSIVE DetectUntilRaise(_, _, _)
DetectUntilRaise(selectors, onPage, raising) ==
  IF selectors = <<>> THEN FALSE
  ELSE IF Head(selectors) \in raising THEN FALSE
  ELSE IF Head(selectors) \in onPage THEN TRUE
  ELSE DetectUntilRaise(Tail(selectors), onPage, raising)

detectCaptcha_StopAtFailure(onPage, raising) ==
  DetectUntilRaise(captchaSelectors, onPage, raising)

\* detectCaptcha: page.$(selector) for each marker in order; true on the first
\* element found; a check that raises is skipped. `onPage` are the markers the
\* page holds, `raising` the checks that raise.
RECURSIVE DetectFrom(_, _, _)
DetectFrom(selectors, onPage, raising) ==
  IF selectors = <<>> THEN FALSE
  ELSE IF Head(selectors) \notin raising /\ Head(selectors) \in onPage THEN TRUE
  ELSE DetectFrom(Tail(selectors), onPage, raising)

detectCaptcha(onPage, raising) == DetectFrom(captchaSelectors, onPage, raising)

\* The page.$ checks a detectCaptcha call makes, in order: it stops at the first
\* that finds an element.
RECURSIVE ChecksFrom(_, _, _)
ChecksFrom(selectors, onPage, raising) ==
  IF selectors = <<>> THEN <<>>
  ELSE << "$:" \o Head(selectors) >>
         \o (IF Head(selectors) \notin raising /\ Head(selectors) \in onPage THEN <<>>
             ELSE ChecksFrom(Tail(selectors), onPage, raising))

MarkerSets == {S \in SUBSET Range(captchaSelectors) : Cardinality(S) <= MaxMarkers}

\* The detector's possible answers on a page that holds a marker (or none):
\* <<answer, whether a check raised>>.
DetectAnswers(hasMarker) ==
  { <<detectCaptcha(m, r), r # {}>> :
      m \in {x \in MarkerSets : (x # {}) = hasMarker}, r \in MarkerSets }

\* The detector's answers on either kind of page, computed once.
DetectorAnswers ==
  Flat({ { <<hasMarker, ans>> : ans \in DetectAnswers(hasMarker) } : hasMarker \in BOOLEAN })
AnswersOn(hasMarker) == {e[2] : e \in {x \in DetectorAnswers : x[1] = hasMarker}}

(* --------------------------- runs of a step --------------------------- *)

\* A run of a piece of a flow: the page operations that returned, in order, and
\* the error that ended it (None: it completed).
Ok(o) == [ops |-> o, err |-> None]
Fail(o, e) == [ops |-> o, err |-> e]

\* An awaited Playwright call: it returns, or it rejects.
Await(op) == {Ok(<<op>>), Fail(<<>>, TransportError)}

\* A then B: B runs only after A completed.
Then(A, B) ==
  {IF a.err # None THEN a ELSE [ops |-> a.ops \o b.ops, err |-> b.err] :
     a \in A, b \in B}

(* ------------------------------ page text ----------------------------- *)

UpperChars == "ABCDEFGHIJKLMNOPQRSTUVWXYZÁÉÍÓÚÑ"
LowerChars == "abcdefghijklmnopqrstuvwxyzáéíóúñ"
AsciiUpper == "ABCDEFGHIJKLMNOPQRSTUVWXYZ"
Digits == "0123456789"

CharAt(s, i) == SubSeq(s, i, i)
HasChar(s, c) == \E i \in 1..Len(s) : CharAt(s, i) = c

\* The lower-case letter of each upper-case letter.
LowerOf ==
  [c \in {CharAt(UpperChars, i) : i \in 1..Len(UpperChars)} |->
     CharAt(LowerChars, CHOOSE i \in 1..Len(UpperChars) : CharAt(UpperChars, i) = c)]

\* String.prototype.toLowerCase, on the letters the texts use.
LowerChar(c) == IF c \in DOMAIN LowerOf THEN LowerOf[c] ELSE c

RECURSIVE toLowerCase(_)
toLowerCase(s) ==
  IF Len(s) = 0 THEN s
  ELSE IF Len(s) = 1 THEN LowerChar(s)
  ELSE LET half == Len(s) \div 2
       IN toLowerCase(SubSeq(s, 1, half)) \o toLowerCase(SubSeq(s, half + 1, Len(s)))

\* String.prototype.includes, for a non-empty pattern.
includes(s, pat) ==
  \E i \in 1..(Len(s) - Len(pat) + 1) : SubSeq(s, i, i + Len(pat) - 1) = pat

\* The confirmation id pattern /([A-Z]{3}\d{12})/.
IdLetters == 3
IdDigits == 12

\* The pattern matches at position i of s.
MatchesAt(s, i) ==
  /\ i + IdLetters + IdDigits - 1 <= Len(s)
  /\ \A k \in 0..(IdLetters - 1) : HasChar(AsciiUpper, CharAt(s, i + k))
  /\ \A k \in IdLetters..(IdLetters + IdDigits - 1) : HasChar(Digits, CharAt(s, i + k))

\* String.prototype.match without the g flag: the regex engine tries the start
\* positions from the left and stops at the first that matches. None: no match.
RECURSIVE MatchFrom(_, _)
MatchFrom(s, i) ==
  IF i > Len(s) THEN None
  ELSE IF MatchesAt(s, i) THEN SubSeq(s, i, i + IdLetters + IdDigits - 1)
  ELSE MatchFrom(s, i + 1)

\* Variant: the last match instead of the first.
RECURSIVE MatchBack(_, _)
MatchBack(s, i) ==
  IF i < 1 THEN None
  ELSE IF MatchesAt(s, i) THEN SubSeq(s, i, i + IdLetters + IdDigits - 1)
  ELSE MatchBack(s, i - 1)

requestIdMatch_Last(text) == IF text = Null THEN None ELSE MatchBack(text, Len(text))

\* `pageText?.match(/([A-Z]{3}\d{12})/)?.[1]` (undefined is None).
requestIdMatch(text) == IF text = Null THEN None ELSE MatchFrom(text, 1)

confirmationIndicators ==
  << "Thanks", "Confirmation", "Request submitted", "Solicitud enviada",
     "Gracias", "Confirmación" >>

\* Variant: the keywords compared without lower-casing.
hasConfirmation_CaseSensitive(text) ==
  /\ text # Null
  /\ \E k \in 1..Len(confirmationIndicators) : includes(text, confirmationIndicators[k])

\* confirmationIndicators.some(i => pageText?.toLowerCase().includes(i.toLowerCase()))
hasConfirmation(text) ==
  /\ text # Null
  /\ LET lower == toLowerCase(text)
     IN \E k \in 1..Len(confirmationIndicators) :
          includes(lower, toLowerCase(confirmationIndicators[k]))

DayMs == 86400000

Pad(n, width) ==
  LET RECURSIVE Dig(_, _)
      Dig(m, w) == IF w = 0 THEN "" ELSE Dig(m \div 10, w - 1) \o CharAt(Digits, (m % 10) + 1)
  IN Dig(n, width)

\* Date.prototype.toISOString for an instant of January 1970:
\* YYYY-MM-DDTHH:mm:ss.sssZ in UTC.
toISOString(t) ==
  "1970-01-" \o Pad(1 + (t \div DayMs), 2) \o "T" \o Pad((t % DayMs) \div 3600000, 2)
    \o ":" \o Pad((t % 3600000) \div 60000, 2) \o ":" \o Pad((t % 60000) \div 1000, 2)
    \o "." \o Pad(t % 1000, 3) \o "Z"

\* The instants Date.now() may return.
Instants == {DayMs - 1, (2 * DayMs) + 3723004}

\* The body texts the portal may show (Null: textContent returned null).
PageTexts ==
  { "Request submitted, ID: NUL117557332822",
    "GRACIAS! ABC123456789012 then XYZ000000000000",
    "CONFIRMACIÓN XABCD1234567890123",
    "Case ABC123456789012",
    "Please fill abc123456789012 AB123456789012 ABC12345678901",
    "",
    Null }

(* --------------------------- submission flow -------------------------- *)

ErrCaptcha == "CAPTCHA detectado. Se requiere intervención manual."
ErrNoPath == "No se pudo encontrar la opción de selección de ruta"
ErrNoImei == "No se pudo encontrar el campo IMEI"
ErrNoSubmit == "No se pudo encontrar el botón de envío"
ErrIncomplete ==
  "La solicitud no se completó correctamente. Es posible que falten campos requeridos."

\* The submission inputs: validated upstream, the carrier number optional.
Requests ==
  { [imei |-> "353012345678901", phoneNumber |-> None],
    [imei |-> "353012345678901", phoneNumber |-> "5551234567"] }

SubmitSteps ==
  << "Load", "PathSelect", "DeviceInfo", "PersonalInfo", "Submit", "ExtractConfirmation" >>

pathSelectorsWith ==
  << "input[value*=\"yes\"]", "input[value*=\"att\"]", "button:has-text(\"Yes\")",
     "button:has-text(\"Sí\")" >>
pathSelectorsWithout ==
  << "input[value*=\"no\"]", "input[value*=\"nonatt\"]", "button:has-text(\"No\")" >>
continueSelectors ==
  << "button:has-text(\"Continue\")", "button:has-text(\"Next\")",
     "button:has-text(\"Continuar\")", "button:has-text(\"Siguiente\")",
     "input[type=\"submit\"]", "button[type=\"submit\"]" >>
imeiSelectors ==
  << "input[name*=\"imei\"]", "input[placeholder*=\"IMEI\"]", "input[id*=\"imei\"]",
     "input[aria-label*=\"IMEI\"]" >>
makeModelSelectors ==
  << "select[name*=\"make\"]", "select[name*=\"model\"]", "select[name*=\"device\"]",
     "[role=\"combobox\"]", ".select-wrapper select" >>
phoneSelectors ==
  << "input[name*=\"phone\"]", "input[name*=\"number\"]", "input[placeholder*=\"phone\"]",
     "input[type=\"tel\"]" >>
firstNameSelectors ==
  << "input[name*=\"first\"]", "input[placeholder*=\"First\"]",
     "input[placeholder*=\"Nombre\"]" >>
lastNameSelectors ==
  << "input[name*=\"last\"]", "input[placeholder*=\"Last\"]",
     "input[placeholder*=\"Apellido\"]" >>
emailSelectors ==
  << "input[type=\"email\"]", "input[name*=\"email\"]", "input[placeholder*=\"email\"]" >>
confirmEmailSelectors ==
  << "input[name*=\"confirm\"]", "input[placeholder*=\"confirm\"]",
     "input[placeholder*=\"verificar\"]" >>
termsSelectors ==
  << "input[type=\"checkbox\"]", "input[name*=\"terms\"]", "input[name*=\"agree\"]",
     "input[name*=\"accept\"]" >>
submitSelectors ==
  << "button[type=\"submit\"]", "input[type=\"submit\"]", "button:has-text(\"Submit\")",
     "button:has-text(\"Enviar\")", "button:has-text(\"Continue\")",
     "button:has-text(\"Continuar\")" >>

\* The radio inputs and buttons the path selectors name, each with the path it
\* stands for on the portal's page.
PathControls ==
  { [tag |-> "input", value |-> "yes", text |-> "", path |-> "with"],
    [tag |-> "input", value |-> "att", text |-> "", path |-> "with"],
    [tag |-> "input", value |-> "no", text |-> "", path |-> "without"],
    [tag |-> "input", value |-> "nonatt", text |-> "", path |-> "without"],
    [tag |-> "button", value |-> "", text |-> "Yes", path |-> "with"],
    [tag |-> "button", value |-> "", text |-> "Sí", path |-> "with"],
    [tag |-> "button", value |-> "", text |-> "No", path |-> "without"] }

\* The path controls of a page, in document order.
PathPages ==
  Flat({ {<<>>}, {<<c>> : c \in PathControls},
         {pair \in PathControls \X PathControls : pair[1] # pair[2]} })

StartsWith(s, prefix) == Len(s) >= Len(prefix) /\ SubSeq(s, 1, Len(prefix)) = prefix

\* The quoted text of a selector: input[value*="yes"] has yes.
Quoted(selector) ==
  LET quotes == {i \in 1..Len(selector) : CharAt(selector, i) = "\""}
      first == CHOOSE i \in quotes : \A j \in quotes : i <= j
      last == CHOOSE i \in quotes : \A j \in quotes : j <= i
  IN SubSeq(selector, first + 1, last - 1)

\* An element matches a selector: [value*="x"] is a substring test on the
\* attribute; :has-text("x") is a substring test on the text, letter case aside.
Matches(selector, c) ==
  IF StartsWith(selector, "input[value*=")
    THEN c.tag = "input" /\ includes(c.value, Quoted(selector))
  ELSE IF StartsWith(selector, "button:has-text(")
    THEN c.tag = "button" /\ includes(toLowerCase(c.text), toLowerCase(Quoted(selector)))
  ELSE FALSE

\* `page.click(foundSelector)`: the first element in document order that the
\* selector matches is clicked; the operation is named by the path it stands for.
RECURSIVE PathClick(_, _)
PathClick(selector, controls) ==
  IF controls = <<>> THEN "clickPath:none"
  ELSE IF Matches(selector, Head(controls)) THEN "clickPath:" \o Head(controls).path
  ELSE PathClick(selector, Tail(controls))

\* The candidates of a list that some control of the page matches.
Appearing(selectors, controls) ==
  {sel \in Range(selectors) : \E i \in 1..Len(controls) : Matches(sel, controls[i])}

\* Variant: an absent control is an error.
IfFound_Required(selectors, op) ==
  Flat({ IF s = Null THEN {Fail(<<>>, "No se pudo encontrar el control")} ELSE Await(op)
          : s \in Resolved(selectors) })

\* `const s = await waitForSelectorWithFallbacks(page, selectors); if (s) await op`
IfFound(selectors, op) ==
  Flat({ IF s = Null THEN {Ok(<<>>)} ELSE Await(op) : s \in Resolved(selectors) })

\* Variant: with no path control resolved the flow goes on to the form.
selectPath_Optional(hasAttNumber) ==
  LET pathSelectors == IF hasAttNumber THEN pathSelectorsWith ELSE pathSelectorsWithout
      On(controls) ==
        LET found == waitForSelectorWithFallbacks(pathSelectors,
                                                  Appearing(pathSelectors, controls))
        IN IF found = Null
             THEN {Ok(<<>>)}
             ELSE Then(Await(PathClick(found, controls)), Await("waitForTimeout"))
  IN Flat({ On(controls) : controls \in PathPages })

\* selectPath(page, hasAttNumber), on any page of path controls
selectPath(hasAttNumber) ==
  LET pathSelectors == IF hasAttNumber THEN pathSelectorsWith ELSE pathSelectorsWithout
      On(controls) ==
        LET found == waitForSelectorWithFallbacks(pathSelectors,
                                                  Appearing(pathSelectors, controls))
        IN IF found = Null
             THEN {Fail(<<>>, ErrNoPath)}
             ELSE Then(Await(PathClick(found, controls)),
                    Then(Await("waitForTimeout"),
                      Flat({ IF c = Null THEN {Ok(<<>>)}
                              ELSE Then(Await("clickContinue"), Await("waitForLoadState"))
                              : c \in Resolved(continueSelectors) })))
  IN Flat({ On(controls) : controls \in PathPages })

\* The option lists of a make/model <select> (text Null: textContent is null).
OptionLists ==
  { << >>,
    << [value |-> "", text |-> "Select device"] >>,
    << [value |-> "", text |-> "Select device"], [value |-> "apple", text |-> "Apple"],
       [value |-> "samsung", text |-> "Samsung"] >>,
    << [value |-> "0", text |-> "Select one"], [value |-> "nokia", text |-> Null],
       [value |-> "lg", text |-> "LG"] >>,
    << [value |-> "x", text |-> ""], [value |-> "moto", text |-> "select Motorola"],
       [value |-> "apple", text |-> "Apple"] >> }

\* `opt.value && opt.value !== '' && opt.text && !opt.text.includes('Select')`
ValidOption(opt) ==
  /\ opt.value # ""
  /\ opt.text # Null
  /\ opt.text # ""
  /\ ~includes(opt.text, "Select")

\* Variant: the last valid option is taken.
RECURSIVE FindValid_Last(_)
FindValid_Last(options) ==
  IF options = <<>> THEN Null
  ELSE IF FindValid_Last(Tail(options)) # Null THEN FindValid_Last(Tail(options))
  ELSE IF ValidOption(Head(options)) THEN Head(options).value
  ELSE Null

\* options.find(valid): the first valid option (Null: undefined).
RECURSIVE FindValid(_)
FindValid(options) ==
  IF options = <<>> THEN Null
  ELSE IF ValidOption(Head(options)) THEN Head(options).value
  ELSE FindValid(Tail(options))

\* selectMakeModel(page) on a page where the resolver returned s and the
\* <select> holds `options`: an absent selector, no valid option and any error
\* while reading or selecting end the step quietly.
selectMakeModelOn(s, options) ==
  IF s = Null
    THEN {Ok(<<>>)}
    ELSE {Ok(<<>>)} \cup
         (IF FindValid(options) = Null
            THEN {Ok(<< "$$eval" >>)}
            ELSE {Ok(<< "$$eval" >>),
                  Ok(<< "$$eval", "selectOption:" \o FindValid(options) >>)})

\* selectMakeModel(page), on any page.
selectMakeModel ==
  Flat({ selectMakeModelOn(s, options) :
            s \in Resolved(makeModelSelectors), options \in OptionLists })

\* fillDeviceInfo(page, request)
fillDeviceInfo(r) ==
  Flat({ IF imeiSelector = Null
            THEN {Fail(<<>>, ErrNoImei)}
            ELSE Then(Await("fill:imei"),
                   Then(selectMakeModel,
                        IF r.phoneNumber # None /\ r.phoneNumber # ""
                          THEN IfFound(phoneSelectors, "fill:phone")
                          ELSE {Ok(<<>>)}))
          : imeiSelector \in Resolved(imeiSelectors) })

\* fillPersonalInfo(page, request)
fillPersonalInfo ==
  Then(IfFound(firstNameSelectors, "fill:firstName"),
    Then(IfFound(lastNameSelectors, "fill:lastName"),
      Then(IfFound(emailSelectors, "fill:email"),
           IfFound(confirmEmailSelectors, "fill:confirmEmail"))))

\* Variant: an absent submit control is skipped like an optional one.
acceptTermsAndSubmit_SubmitOptional ==
  Then(IfFound(termsSelectors, "checkTerms"),
       Flat({ IF submitSelector = Null
                 THEN {Ok(<<>>)}
                 ELSE Then(Await("clickSubmit"), Await("waitForLoadState"))
               : submitSelector \in Resolved(submitSelectors) }))

\* acceptTermsAndSubmit(page)
acceptTermsAndSubmit ==
  Then(IfFound(termsSelectors, "checkTerms"),
       Flat({ IF submitSelector = Null
                 THEN {Fail(<<>>, ErrNoSubmit)}
                 ELSE Then(Await("clickSubmit"), Await("waitForLoadState"))
               : submitSelector \in Resolved(submitSelectors) }))

\* extractConfirmationDetails(page) on a page whose body text is `text` and
\* which holds a form or submit control iff `form`, read at instant `now`:
\* the run, and the record returned when it completes.
extractConfirmationDetails(text, form, now) ==
  LET formCheck == IF hasConfirmation(text) THEN {Ok(<<>>)}
                   ELSE Then(Await("$$form"),
                             IF form THEN {Fail(<<>>, ErrIncomplete)} ELSE {Ok(<<>>)})
      value == [success |-> TRUE,
                requestId |-> requestIdMatch(text),
                deadlineISO |-> toISOString(now + (24 * 60 * 60 * 1000)),
                captchaDetected |-> FALSE,
                errorMessage |-> None]
  IN { [run |-> run, value |-> IF run.err = None THEN value ELSE NoResult]
       : run \in Then(Await("textContent"), formCheck) }

\* No invocation is in flight.
Quiet == \A q \in Procs : pc[q] \in {"idle", "done"}

\* The kind of a page operation: its name up to the colon.
RECURSIVE Kind(_)
Kind(op) ==
  IF Len(op) = 0 \/ CharAt(op, 1) = ":" THEN ""
  ELSE CharAt(op, 1) \o Kind(SubSeq(op, 2, Len(op)))

Kinds(o) == {Kind(o[i]) : i \in 1..Len(o)}

\* The operations that act on the page (the others read it or wait).
ActionKinds ==
  {"goto", "clickPath", "clickContinue", "fill", "selectOption", "checkTerms", "clickSubmit"}

Actions(o) == Kinds(o) \cap ActionKinds

\* config: the entry URLs of the two flows.
ATT_UNLOCK_URL == "https://www.att.com/deviceunlock/unlockstep1"
ATT_STATUS_URL == "https://www.att.com/deviceunlock/status"

\* Where page.goto(entry) may leave the page when it returns: on the entry URL,
\* or on the page the portal redirected it to.
Landings(entry) == {entry, "https://www.att.com/deviceunlock/"}

\* A click may take the page elsewhere: the markers on it may change.
Clicks(run) == Kinds(run.ops) \cap {"clickPath", "clickContinue", "clickSubmit"} # {}

\* submitUnlockRequest(request) is called: `page = null`, and createPage runs
\* up to its first await.
StartSubmit(p) ==
  /\ Quiet
  /\ invocations < MaxInvocations
  /\ invocations' = invocations + 1
  /\ \E r \in Requests : FreshInvocation(p, "submit", r)
  /\ CallCreatePage(p)
  /\ UNCHANGED <<shared, resolver, logVars, frontVars>>

\* Variant: createPage is called outside the try block, so its error leaves
\* the flow call.
CreatePageFailed_Propagates(p) ==
  /\ pc[p] = "created"
  /\ kind[p] \in {"submit", "status"}
  /\ ret[p] # "ok"
  /\ thrown' = [thrown EXCEPT ![p] = ret[p]]
  /\ pc' = [pc EXCEPT ![p] = "done"]
  /\ UNCHANGED <<resolver, logVars, frontVars, shared, invocations, kind, request, ret, pageMade, pageCtx,
                 page,
                 closeCalls, pageOpen, pageVars, steps, ops, acted, err, result>>

\* `page = await browserAutomation.createPage()` raised: the assignment never
\* happens and control enters the catch block with page still null.
CreatePageFailed(p) ==
  /\ pc[p] = "created"
  /\ kind[p] \in {"submit", "status"}
  /\ ret[p] # "ok"
  /\ err' = [err EXCEPT ![p] = ret[p]]
  /\ pc' = [pc EXCEPT ![p] = "catch"]
  /\ UNCHANGED <<resolver, logVars, frontVars, shared, invocations, kind, request, ret, pageMade, pageCtx,
                 page,
                 closeCalls, pageOpen, pageVars, steps, ops, acted, thrown, result>>

\* The early return of submitUnlockRequest.
\* Variant: the early return carries a deadline.
CaptchaResult_WithDeadline ==
  [success |-> FALSE, requestId |-> None, deadlineISO |-> toISOString(DayMs),
   captchaDetected |-> TRUE, errorMessage |-> ErrCaptcha]

CaptchaResult ==
  [success |-> FALSE, requestId |-> None, deadlineISO |-> None,
   captchaDetected |-> TRUE, errorMessage |-> ErrCaptcha]

\* Variant: the early return is missing.
ReturnOnCaptcha_Never(captchaDetected) == FALSE

\* `if (captchaDetected) { ...; return {...} }` after the entry page loaded.
ReturnOnCaptcha(captchaDetected) == captchaDetected

\* Load: `page = await createPage()` returned; `await page.goto(ATT_UNLOCK_URL)`;
\* `detectCaptcha(page)`; on a positive answer return at once.
Load(p) ==
  /\ pc[p] = "created"
  /\ kind[p] = "submit"
  /\ ret[p] = "ok"
  /\ page' = [page EXCEPT ![p] = TRUE]
  /\ steps' = [steps EXCEPT ![p] = Append(@, "Load")]
  /\ \E c \in BOOLEAN :
       /\ pageCaptcha' = [pageCaptcha EXCEPT ![p] = c]
       /\ \/ /\ err' = [err EXCEPT ![p] = TransportError]
             /\ pc' = [pc EXCEPT ![p] = "catch"]
             /\ UNCHANGED <<ops, acted, result, landedAt>>
          \/ \E ans \in AnswersOn(c), at \in Landings(ATT_UNLOCK_URL) :
               /\ landedAt' = [landedAt EXCEPT ![p] = at]
               /\ ops' = [ops EXCEPT ![p] =
                    << "goto", IF ans[1] THEN "detectCaptcha:true"
                                         ELSE "detectCaptcha:false" >>]
               /\ acted' = [acted EXCEPT ![p] = @ \cup {"goto"}]
               /\ IF ReturnOnCaptcha(ans[1])
                    THEN /\ result' = [result EXCEPT ![p] = CaptchaResult]
                         /\ pc' = [pc EXCEPT ![p] = "finally"]
                    ELSE /\ pc' = [pc EXCEPT ![p] = "selectPath"]
                         /\ UNCHANGED result
               /\ UNCHANGED err
  /\ UNCHANGED <<resolver, logVars, frontVars, shared, invocations, kind, request, ret, pageMade, pageCtx,
                 closeCalls, pageOpen, checkThrew, bodyText, formLeft, extractedAt,
                 thrown>>

\* Variant: a step whose page operation timed out is tried again.
Step_RetriesOnTimeout(p, from, name, runs, to) ==
  /\ pc[p] = from
  /\ steps' = [steps EXCEPT ![p] = IF name \in Range(@) THEN @ ELSE Append(@, name)]
  /\ \E run \in runs :
       /\ ops' = [ops EXCEPT ![p] = run.ops]
       /\ acted' = [acted EXCEPT ![p] = @ \cup Actions(run.ops)]
       /\ \E c \in (IF Clicks(run) THEN BOOLEAN ELSE {pageCaptcha[p]}) :
            pageCaptcha' = [pageCaptcha EXCEPT ![p] = c]
       /\ IF run.err = None
            THEN /\ pc' = [pc EXCEPT ![p] = to]
                 /\ UNCHANGED err
            ELSE IF run.err = TransportError
              THEN UNCHANGED <<pc, err>>
            ELSE /\ pc' = [pc EXCEPT ![p] = "catch"]
                 /\ err' = [err EXCEPT ![p] = run.err]
  /\ UNCHANGED <<resolver, logVars, frontVars, landedAt, shared, invocations, kind, request, ret, pageMade,
                 pageCtx, page,
                 closeCalls, pageOpen, checkThrew, bodyText, formLeft, extractedAt,
                 thrown, result>>

\* One awaited step of a flow: it runs to its end, or its error is thrown to the
\* catch block of the flow.
Step(p, from, name, runs, to) ==
  /\ pc[p] = from
  /\ steps' = [steps EXCEPT ![p] = Append(@, name)]
  /\ \E run \in runs :
       /\ ops' = [ops EXCEPT ![p] = run.ops]
       /\ acted' = [acted EXCEPT ![p] = @ \cup Actions(run.ops)]
       /\ \E c \in (IF Clicks(run) THEN BOOLEAN ELSE {pageCaptcha[p]}) :
            pageCaptcha' = [pageCaptcha EXCEPT ![p] = c]
       /\ IF run.err = None
            THEN /\ pc' = [pc EXCEPT ![p] = to]
                 /\ UNCHANGED err
            ELSE /\ pc' = [pc EXCEPT ![p] = "catch"]
                 /\ err' = [err EXCEPT ![p] = run.err]
  /\ UNCHANGED <<resolver, logVars, frontVars, landedAt, shared, invocations, kind, request, ret, pageMade,
                 pageCtx, page,
                 closeCalls, pageOpen, checkThrew, bodyText, formLeft, extractedAt,
                 thrown, result>>

\* The runs of selectPath on either path, computed once.
PathTable ==
  Flat({ { <<hasAttNumber, run>> : run \in selectPath(hasAttNumber) } : hasAttNumber \in BOOLEAN })
PathRuns(hasAttNumber) == {e[2] : e \in {x \in PathTable : x[1] = hasAttNumber}}

\* `hasAttNumber = !!request.phoneNumber; await this.selectPath(page, hasAttNumber)`
PathSelect(p) ==
  Step(p, "selectPath", "PathSelect",
       PathRuns(request[p].phoneNumber # None /\ request[p].phoneNumber # ""),
       "fillDeviceInfo")

\* `await this.fillDeviceInfo(page, request)`
DeviceInfo(p) ==
  Step(p, "fillDeviceInfo", "DeviceInfo", fillDeviceInfo(request[p]), "fillPersonalInfo")

\* `await this.fillPersonalInfo(page, request)`
PersonalInfo(p) ==
  Step(p, "fillPersonalInfo", "PersonalInfo", fillPersonalInfo, "acceptTermsAndSubmit")

\* Variant: after submitting, the flow fills the personal data again.
Submit_GoesBack(p) ==
  Step(p, "acceptTermsAndSubmit", "Submit", acceptTermsAndSubmit, "fillPersonalInfo")

\* `await this.acceptTermsAndSubmit(page)`
Submit(p) ==
  Step(p, "acceptTermsAndSubmit", "Submit", acceptTermsAndSubmit, "extract")

\* The outcomes of extractConfirmationDetails on every page, computed once.
ConfirmationTable ==
  Flat({ { <<text, form, now, x>> : x \in extractConfirmationDetails(text, form, now) } :
            text \in PageTexts, form \in BOOLEAN, now \in Instants })
Confirmations(text, form, now) ==
  {e[4] : e \in {x \in ConfirmationTable : x[1] = text /\ x[2] = form /\ x[3] = now}}

\* `const result = await this.extractConfirmationDetails(page); return result`
ExtractConfirmation(p) ==
  /\ pc[p] = "extract"
  /\ steps' = [steps EXCEPT ![p] = Append(@, "ExtractConfirmation")]
  /\ \E text \in PageTexts, form \in BOOLEAN, now \in Instants :
       \E x \in Confirmations(text, form, now) :
         /\ ops' = [ops EXCEPT ![p] = x.run.ops]
         /\ acted' = [acted EXCEPT ![p] = @ \cup Actions(x.run.ops)]
         /\ formLeft' = [formLeft EXCEPT ![p] = form]
         /\ bodyText' = [bodyText EXCEPT ![p] = IF x.run.ops = <<>> THEN None ELSE text]
         /\ IF x.run.err = None
              THEN /\ result' = [result EXCEPT ![p] = x.value]
                   /\ extractedAt' = [extractedAt EXCEPT ![p] = now]
                   /\ pc' = [pc EXCEPT ![p] = "finally"]
                   /\ UNCHANGED err
              ELSE /\ err' = [err EXCEPT ![p] = x.run.err]
                   /\ pc' = [pc EXCEPT ![p] = "catch"]
                   /\ UNCHANGED <<result, extractedAt>>
  /\ UNCHANGED <<resolver, logVars, frontVars, landedAt, shared, invocations, kind, request, ret, pageMade,
                 pageCtx, page,
                 closeCalls, pageOpen, pageCaptcha, checkThrew, thrown>>

\* Variant: the failure record reports success when no CAPTCHA was seen.
SubmitFailure_SuccessFlag(captchaDetected, message) ==
  [success |-> ~captchaDetected, requestId |-> None, deadlineISO |-> None,
   captchaDetected |-> captchaDetected, errorMessage |-> message]

\* Variant: the catch block does not look at the CAPTCHA check's answer.
SubmitFailure_NoRecheck(captchaDetected, message) ==
  [success |-> FALSE, requestId |-> None, deadlineISO |-> None,
   captchaDetected |-> FALSE, errorMessage |-> message]

\* The record the catch block of submitUnlockRequest returns.
SubmitFailure(captchaDetected, message) ==
  [success |-> FALSE, requestId |-> None, deadlineISO |-> None,
   captchaDetected |-> captchaDetected, errorMessage |-> message]

\* catch (error) of submitUnlockRequest:
\* `captchaDetected = page ? await detectCaptcha(page) : false`, then the record.
CatchSubmit(p) ==
  /\ pc[p] = "catch"
  /\ kind[p] = "submit"
  /\ IF page[p]
       THEN \E ans \in AnswersOn(pageCaptcha[p]) :
              /\ result' = [result EXCEPT ![p] = SubmitFailure(ans[1], err[p])]
              /\ checkThrew' = [checkThrew EXCEPT ![p] = ans[2]]
              /\ ops' = [ops EXCEPT ![p] =
                   << IF ans[1] THEN "detectCaptcha:true" ELSE "detectCaptcha:false" >>]
       ELSE /\ result' = [result EXCEPT ![p] = SubmitFailure(FALSE, err[p])]
            /\ ops' = [ops EXCEPT ![p] = <<>>]
            /\ UNCHANGED checkThrew
  /\ pc' = [pc EXCEPT ![p] = "finally"]
  /\ UNCHANGED <<resolver, logVars, frontVars, landedAt, shared, invocations, kind, request, ret, pageMade,
                 pageCtx, page,
                 closeCalls, pageOpen, pageCaptcha, bodyText, formLeft, extractedAt,
                 steps, acted, err, thrown>>

\* Variant: closePage lets the failure of page.close() out, so the finally
\* block throws it in place of the record.
Finally_CloseThrows(p) ==
  /\ pc[p] = "finally"
  /\ IF page[p]
       THEN \E closed \in BOOLEAN :
              /\ ClosePage(p, closed)
              /\ thrown' = [thrown EXCEPT ![p] = IF closed THEN @ ELSE TransportError]
              /\ result' = [result EXCEPT ![p] = IF closed THEN @ ELSE NoResult]
       ELSE UNCHANGED <<closeCalls, pageOpen, thrown, result>>
  /\ pc' = [pc EXCEPT ![p] = "done"]
  /\ UNCHANGED <<resolver, logVars, frontVars, shared, invocations, kind, request, ret, pageMade, pageCtx,
                 page,
                 pageVars, steps, ops, acted, err>>

\* finally: `if (page) await browserAutomation.closePage(page)`; then the record
\* (set by the return statement that ran) goes to the caller.
Finally(p) ==
  /\ pc[p] = "finally"
  /\ IF page[p]
       THEN \E closed \in BOOLEAN : ClosePage(p, closed)
       ELSE UNCHANGED <<closeCalls, pageOpen>>
  /\ pc' = [pc EXCEPT ![p] = "done"]
  /\ UNCHANGED <<resolver, logVars, frontVars, shared, invocations, kind, request, ret, pageMade, pageCtx,
                 page,
                 pageVars, flowVars>>

(* ----------------------------- status flow ---------------------------- *)

ErrNoStatusImei == "No se pudo encontrar el campo IMEI en la página de estado"
ErrNoRequestId == "No se pudo encontrar el campo Request ID"
ErrNoContent == "No se pudo obtener el contenido de la página de estado"
ErrStatusQuery ==
  "Error en la consulta de estado. Verifique que el IMEI y Request ID sean correctos."
UnknownDetails == "No se pudo determinar el estado actual. Reintente más tarde."

\* The status inputs: validated upstream.
Queries == { [imei |-> "353012345678901", requestId |-> "NUL117557332822"] }

statusImeiSelectors ==
  << "input[name*=\"imei\"]", "input[placeholder*=\"IMEI\"]", "input[id*=\"imei\"]" >>
requestIdSelectors ==
  << "input[name*=\"request\"]", "input[name*=\"case\"]", "input[placeholder*=\"Request\"]",
     "input[placeholder*=\"Case\"]", "input[id*=\"request\"]", "input[id*=\"case\"]" >>
statusSubmitSelectors ==
  << "button[type=\"submit\"]", "input[type=\"submit\"]", "button:has-text(\"Check Status\")",
     "button:has-text(\"Submit\")", "button:has-text(\"Verificar\")",
     "button:has-text(\"Enviar\")" >>

\* `const s = await waitForSelectorWithFallbacks(page, selectors);
\*  if (!s) throw new Error(message); await op`
Required(selectors, message, op) ==
  Flat({ IF s = Null THEN {Fail(<<>>, message)} ELSE Await(op) : s \in Resolved(selectors) })

\* The keyword groups of statusPatterns, in the order Object.entries yields them.
statusPatterns ==
  << [status |-> "approved",
      patterns |-> << "approved", "aprobada", "completed", "completada", "unlocked",
                      "desbloqueado", "success", "exitoso" >>],
     [status |-> "denied",
      patterns |-> << "denied", "denegada", "rejected", "rechazada", "declined",
                      "declinada", "not eligible", "no elegible" >>],
     [status |-> "pending",
      patterns |-> << "pending", "pendiente", "in progress", "en progreso", "processing",
                      "procesando", "under review", "en revisión" >>] >>

errorPatterns ==
  << "error", "not found", "invalid", "incorrect", "wrong", "incorrecto", "inválido" >>

\* patterns.some(pattern => text.includes(pattern))
SomeIncluded(text, patterns) == \E k \in 1..Len(patterns) : includes(text, patterns[k])

Whitespace == {" ", "\t", "\r", "\n"}

\* String.prototype.trim
RECURSIVE trim(_)
trim(s) ==
  IF Len(s) = 0 THEN s
  ELSE IF CharAt(s, 1) \in Whitespace THEN trim(SubSeq(s, 2, Len(s)))
  ELSE IF CharAt(s, Len(s)) \in Whitespace THEN trim(SubSeq(s, 1, Len(s) - 1))
  ELSE s

\* pageText.split('\n'): the pieces between line feeds, from position i on, the
\* current piece starting at position from.
RECURSIVE SplitFrom(_, _, _)
SplitFrom(s, from, i) ==
  LET feeds == {k \in i..Len(s) : CharAt(s, k) = "\n"}
  IN IF feeds = {} THEN << SubSeq(s, from, Len(s)) >>
     ELSE LET n == CHOOSE k \in feeds : \A m \in feeds : k <= m
          IN << SubSeq(s, from, n - 1) >> \o SplitFrom(s, n + 1, n + 1)

\* pageText.split('\n').map(line => line.trim()).filter(line => line.length > 0)
Lines(pageText) ==
  LET raw == SplitFrom(pageText, 1, 1)
      trimmed == [k \in 1..Len(raw) |-> trim(raw[k])]
  IN SelectSeq(trimmed, LAMBDA line : Len(line) > 0)

\* The line mentions the status: the test of the loop of extractStatusDetails.
Relevant(line, status) ==
  LET l == toLowerCase(line)
  IN \/ includes(l, "status")
     \/ includes(l, "estado")
     \/ includes(l, "request")
     \/ includes(l, "solicitud")
     \/ includes(l, toLowerCase(status))

\* Variant: a line is pushed again when it was collected before.
RECURSIVE PushContext_Repeats(_, _, _, _)
PushContext_Repeats(lines, j, end, relevantLines) ==
  IF j > end THEN relevantLines
  ELSE PushContext_Repeats(lines, j + 1, end, Append(relevantLines, lines[j]))

\* The inner loop: push lines[j], start <= j < end, unless already collected.
RECURSIVE PushContext(_, _, _, _)
PushContext(lines, j, end, relevantLines) ==
  IF j > end THEN relevantLines
  ELSE PushContext(lines, j + 1, end,
         IF lines[j] \in Range(relevantLines) THEN relevantLines
         ELSE Append(relevantLines, lines[j]))

\* The outer loop over the lines, from line i on (1-based).
RECURSIVE Collect(_, _, _, _)
Collect(lines, status, i, relevantLines) ==
  IF i > Len(lines) THEN relevantLines
  ELSE Collect(lines, status, i + 1,
         IF Relevant(lines[i], status)
           THEN PushContext(lines, IF i - 1 < 1 THEN 1 ELSE i - 1,
                            IF i + 2 > Len(lines) THEN Len(lines) ELSE i + 2,
                            relevantLines)
           ELSE relevantLines)

\* Array.prototype.join(' ')
RECURSIVE join(_)
join(parts) ==
  IF parts = <<>> THEN ""
  ELSE IF Len(parts) = 1 THEN parts[1]
  ELSE parts[1] \o " " \o join(Tail(parts))

DetailLines == 5
DetailChars == 500

\* Variant: the summary is not cut to DetailChars characters.
extractStatusDetails_NoCut(pageText, status) ==
  LET relevantLines == Collect(Lines(pageText), status, 1, <<>>)
      firstLines == SubSeq(relevantLines, 1,
                      IF Len(relevantLines) < DetailLines THEN Len(relevantLines)
                      ELSE DetailLines)
  IN trim(join(firstLines))

\* extractStatusDetails(pageText, status)
extractStatusDetails(pageText, status) ==
  LET relevantLines == Collect(Lines(pageText), status, 1, <<>>)
      firstLines == SubSeq(relevantLines, 1,
                      IF Len(relevantLines) < DetailLines THEN Len(relevantLines)
                      ELSE DetailLines)
      joined == join(firstLines)
  IN trim(SubSeq(joined, 1, IF Len(joined) < DetailChars THEN Len(joined) ELSE DetailChars))

\* Variant: the loop does not stop at the first group found; the last one wins.
RECURSIVE FirstGroup_LastWins(_, _)
FirstGroup_LastWins(text, g) ==
  IF g > Len(statusPatterns) THEN None
  ELSE IF FirstGroup_LastWins(text, g + 1) # None THEN FirstGroup_LastWins(text, g + 1)
  ELSE IF SomeIncluded(text, statusPatterns[g].patterns) THEN statusPatterns[g].status
  ELSE None

\* The loop over Object.entries(statusPatterns): the first group, from group g
\* on, with a pattern in the text (None: no group).
RECURSIVE FirstGroup(_, _)
FirstGroup(text, g) ==
  IF g > Len(statusPatterns) THEN None
  ELSE IF SomeIncluded(text, statusPatterns[g].patterns) THEN statusPatterns[g].status
  ELSE FirstGroup(text, g + 1)

\* Variant: the classifier keeps state between calls: on every other
\* invocation it walks the keyword groups from the other end.
extractStatusInfo_Stateful(pageText) ==
  IF pageText = Null \/ pageText = ""
    THEN [err |-> ErrNoContent, value |-> NoResult]
  ELSE
    LET text == toLowerCase(pageText)
        status == IF invocations % 2 = 1 THEN FirstGroup_LastWins(text, 1)
                  ELSE FirstGroup(text, 1)
    IN IF status # None
         THEN [err |-> None,
               value |-> [success |-> TRUE, status |-> status,
                          details |-> extractStatusDetails(pageText, status),
                          errorMessage |-> None]]
       ELSE IF SomeIncluded(text, errorPatterns)
         THEN [err |-> ErrStatusQuery, value |-> NoResult]
       ELSE [err |-> None,
             value |-> [success |-> TRUE, status |-> "unknown",
                        details |-> UnknownDetails, errorMessage |-> None]]

\* Variant: a text without any keyword is an error of the query.
extractStatusInfo_UnknownFails(pageText) ==
  IF pageText = Null \/ pageText = ""
    THEN [err |-> ErrNoContent, value |-> NoResult]
  ELSE
    LET text == toLowerCase(pageText)
        status == FirstGroup(text, 1)
    IN IF status # None
         THEN [err |-> None,
               value |-> [success |-> TRUE, status |-> status,
                          details |-> extractStatusDetails(pageText, status),
                          errorMessage |-> None]]
       ELSE [err |-> ErrStatusQuery, value |-> NoResult]

\* Variant: the error keywords are not looked for.
extractStatusInfo_ErrorsIgnored(pageText) ==
  IF pageText = Null \/ pageText = ""
    THEN [err |-> ErrNoContent, value |-> NoResult]
  ELSE
    LET text == toLowerCase(pageText)
        status == FirstGroup(text, 1)
    IN IF status # None
         THEN [err |-> None,
               value |-> [success |-> TRUE, status |-> status,
                          details |-> extractStatusDetails(pageText, status),
                          errorMessage |-> None]]
       ELSE [err |-> None,
             value |-> [success |-> TRUE, status |-> "unknown",
                        details |-> UnknownDetails, errorMessage |-> None]]

\* extractStatusInfo(page) once textContent('body') returned pageText: the error
\* it throws (None: none) and the record it returns.
extractStatusInfo(pageText) ==
  IF pageText = Null \/ pageText = ""
    THEN [err |-> ErrNoContent, value |-> NoResult]
  ELSE
    LET text == toLowerCase(pageText)
        status == FirstGroup(text, 1)
    IN IF status # None
         THEN [err |-> None,
               value |-> [success |-> TRUE, status |-> status,
                          details |-> extractStatusDetails(pageText, status),
                          errorMessage |-> None]]
       ELSE IF SomeIncluded(text, errorPatterns)
         THEN [err |-> ErrStatusQuery, value |-> NoResult]
       ELSE [err |-> None,
             value |-> [success |-> TRUE, status |-> "unknown",
                        details |-> UnknownDetails, errorMessage |-> None]]

\* A status page whose second line alone is longer than the details may be.
LongStatusText ==
  LET piece == "We are still reviewing the documents you sent us. "
      line == piece \o piece \o piece \o piece \o piece \o piece
  IN "Status: pending\n" \o line \o line \o "\nThank you"

\* The body texts the status page may show (Null: textContent returned null).
StatusTexts ==
  { "Your unlock request was approved.\nAn error report is available.",
    LongStatusText,
    "Request NUL117557332822\n\n  Status: PENDING  \nWe are reviewing it\nThank you\nAT&T",
    "Denied while pending",
    "Intro\nRequest NUL1\nAT&T\nStatus: approved\nAT&T\nDetails follow\nx\nSolicitud cerrada\ny\nz",
    "Estado\nEN REVISIÓN",
    "Work in progress",
    "Error: request not found",
    "IMEI INVÁLIDO",
    "Welcome to AT&T",
    "",
    Null }

\* checkStatus(imei, requestId) is called: `page = null`, and createPage runs
\* up to its first await.
StartStatus(p) ==
  /\ Quiet
  /\ invocations < MaxInvocations
  /\ invocations' = invocations + 1
  /\ \E q \in Queries : FreshInvocation(p, "status", [imei |-> q.imei, phoneNumber |-> None])
  /\ CallCreatePage(p)
  /\ UNCHANGED <<shared, resolver, logVars, frontVars>>

\* `page = await createPage()` returned; `await page.goto(ATT_STATUS_URL)`.
Navigate(p) ==
  /\ pc[p] = "created"
  /\ kind[p] = "status"
  /\ ret[p] = "ok"
  /\ page' = [page EXCEPT ![p] = TRUE]
  /\ steps' = [steps EXCEPT ![p] = Append(@, "Navigate")]
  /\ \E c \in BOOLEAN : pageCaptcha' = [pageCaptcha EXCEPT ![p] = c]
  /\ \/ /\ err' = [err EXCEPT ![p] = TransportError]
        /\ pc' = [pc EXCEPT ![p] = "catch"]
        /\ UNCHANGED <<ops, acted, landedAt>>
     \/ /\ \E at \in Landings(ATT_STATUS_URL) : landedAt' = [landedAt EXCEPT ![p] = at]
        /\ ops' = [ops EXCEPT ![p] = << "goto" >>]
        /\ acted' = [acted EXCEPT ![p] = @ \cup {"goto"}]
        /\ pc' = [pc EXCEPT ![p] = "fillImei"]
        /\ UNCHANGED err
  /\ UNCHANGED <<resolver, logVars, frontVars, shared, invocations, kind, request, ret, pageMade, pageCtx,
                 closeCalls, pageOpen, checkThrew, bodyText, formLeft, extractedAt,
                 thrown, result>>

\* Resolve the IMEI field (fatal when absent) and fill it.
FillImei(p) ==
  Step(p, "fillImei", "FillImei",
       Required(statusImeiSelectors, ErrNoStatusImei, "fill:imei"), "fillRequestId")

\* Resolve the request id field (fatal when absent) and fill it.
FillRequestId(p) ==
  Step(p, "fillRequestId", "FillRequestId",
       Required(requestIdSelectors, ErrNoRequestId, "fill:requestId"), "submitQuery")

\* Resolve the submit control (fatal when absent), click it and wait for
\* network idle.
SubmitQuery(p) ==
  Step(p, "submitQuery", "SubmitQuery",
       Flat({ IF s = Null THEN {Fail(<<>>, ErrNoSubmit)}
               ELSE Then(Await("clickSubmit"), Await("waitForLoadState"))
               : s \in Resolved(statusSubmitSelectors) }),
       "classify")

\* `const result = await this.extractStatusInfo(page); return result`
Classify(p) ==
  /\ pc[p] = "classify"
  /\ steps' = [steps EXCEPT ![p] = Append(@, "Classify")]
  /\ \/ /\ err' = [err EXCEPT ![p] = TransportError]
        /\ pc' = [pc EXCEPT ![p] = "catch"]
        /\ ops' = [ops EXCEPT ![p] = <<>>]
        /\ UNCHANGED <<bodyText, result>>
     \/ \E text \in StatusTexts :
          LET x == extractStatusInfo(text)
          IN /\ ops' = [ops EXCEPT ![p] = << "textContent" >>]
             /\ bodyText' = [bodyText EXCEPT ![p] = text]
             /\ IF x.err = None
                  THEN /\ result' = [result EXCEPT ![p] = x.value]
                       /\ pc' = [pc EXCEPT ![p] = "finally"]
                       /\ UNCHANGED err
                  ELSE /\ err' = [err EXCEPT ![p] = x.err]
                       /\ pc' = [pc EXCEPT ![p] = "catch"]
                       /\ UNCHANGED result
  /\ UNCHANGED <<resolver, logVars, frontVars, landedAt, shared, invocations, kind, request, ret, pageMade,
                 pageCtx, page,
                 closeCalls, pageOpen, pageCaptcha, checkThrew, formLeft, extractedAt,
                 acted, thrown>>

\* Variant: the failure record carries the cause as details too.
StatusFailure_WithDetails(message) ==
  [success |-> FALSE, status |-> "unknown", details |-> message, errorMessage |-> message]

\* The record the catch block of checkStatus returns.
StatusFailure(message) ==
  [success |-> FALSE, status |-> "unknown", details |-> None, errorMessage |-> message]

\* catch (error) of checkStatus.
CatchStatus(p) ==
  /\ pc[p] = "catch"
  /\ kind[p] = "status"
  /\ result' = [result EXCEPT ![p] = StatusFailure(err[p])]
  /\ ops' = [ops EXCEPT ![p] = <<>>]
  /\ pc' = [pc EXCEPT ![p] = "finally"]
  /\ UNCHANGED <<resolver, logVars, frontVars, shared, invocations, kind, request, ret, pageMade, pageCtx,
                 page,
                 closeCalls, pageOpen, pageVars, steps, acted, err, thrown>>

(* --------------------------- specifications --------------------------- *)

Init ==
  /\ browser = 0
  /\ context = 0
  /\ launched = 0
  /\ contexts = 0
  /\ invocations = 0
  /\ pc = [p \in Procs |-> "idle"]
  /\ kind = [p \in Procs |-> None]
  /\ request = [p \in Procs |-> [imei |-> None, phoneNumber |-> None]]
  /\ ret = [p \in Procs |-> None]
  /\ pageMade = [p \in Procs |-> FALSE]
  /\ pageCtx = [p \in Procs |-> 0]
  /\ page = [p \in Procs |-> FALSE]
  /\ closeCalls = [p \in Procs |-> 0]
  /\ pageOpen = [p \in Procs |-> FALSE]
  /\ pageCaptcha = [p \in Procs |-> FALSE]
  /\ checkThrew = [p \in Procs |-> FALSE]
  /\ bodyText = [p \in Procs |-> None]
  /\ formLeft = [p \in Procs |-> FALSE]
  /\ extractedAt = [p \in Procs |-> -1]
  /\ steps = [p \in Procs |-> <<>>]
  /\ ops = [p \in Procs |-> <<>>]
  /\ acted = [p \in Procs |-> {}]
  /\ err = [p \in Procs |-> None]
  /\ thrown = [p \in Procs |-> None]
  /\ result = [p \in Procs |-> NoResult]
  /\ landedAt = [p \in Procs |-> None]
  /\ update = [p \in Procs |-> [type |-> "none"]]
  /\ handled = [p \in Procs |-> {}]
  /\ replies = [p \in Procs |-> <<>>]
  /\ stored = <<>>
  /\ resolver = [p \in Procs |-> NoCall]
  /\ torn = [browsers |-> {}, contexts |-> {}]
  /\ systemLogs = <<>>
  /\ logsCreated = 0

\* The session manager's steps inside createPage.
CreatePageStep(p) ==
  \/ LaunchDone(p)
  \/ NewContextDone(p)
  \/ NewPageDone(p)
  \/ RouteDone(p)

\* The flows are followed for one caller, one invocation after another:
\* invocations share nothing but the session manager's fields, and SpecRace
\* explores how concurrent callers interleave on those.
FlowCallers == {p \in Procs : \A q \in Procs : p <= q}

Next ==
  \E p \in FlowCallers :
    \/ StartSubmit(p)
    \/ StartStatus(p)
    \/ CreatePageStep(p)
    \/ CreatePageFailed(p)
    \/ Load(p)
    \/ PathSelect(p)
    \/ DeviceInfo(p)
    \/ PersonalInfo(p)
    \/ Submit(p)
    \/ ExtractConfirmation(p)
    \/ CatchSubmit(p)
    \/ Navigate(p)
    \/ FillImei(p)
    \/ FillRequestId(p)
    \/ SubmitQuery(p)
    \/ Classify(p)
    \/ CatchStatus(p)
    \/ Finally(p)

Spec == Init /\ [][Next]_vars

\* A caller of createPage (both flows are): the call begins.
StartOpen(p) ==
  /\ pc[p] \in {"idle", "done"}
  /\ invocations < MaxInvocations
  /\ invocations' = invocations + 1
  /\ FreshInvocation(p, "open", [imei |-> None, phoneNumber |-> None])
  /\ CallCreatePage(p)
  /\ UNCHANGED <<shared, resolver, logVars, frontVars>>

\* createPage settled for its caller: an error goes to the caller; a page is
\* used and closed with closePage, as the flows do.
Release(p) ==
  /\ pc[p] = "created"
  /\ kind[p] = "open"
  /\ IF ret[p] = "ok"
       THEN /\ page' = [page EXCEPT ![p] = TRUE]
            /\ \E closed \in BOOLEAN : ClosePage(p, closed)
            /\ UNCHANGED thrown
       ELSE /\ thrown' = [thrown EXCEPT ![p] = ret[p]]
            /\ UNCHANGED <<page, closeCalls, pageOpen>>
  /\ pc' = [pc EXCEPT ![p] = "done"]
  /\ UNCHANGED <<resolver, logVars, frontVars, shared, invocations, kind, request, ret, pageMade, pageCtx,
                 pageVars, steps, ops, acted, err, result>>

\* Concurrent createPage calls, interleaved at the awaits inside createPage.
NextRace ==
  \E p \in Procs :
    \/ StartOpen(p)
    \/ CreatePageStep(p)
    \/ Release(p)

SpecRace == Init /\ [][NextRace]_vars

\* cleanup() is called: `if (this.context)` starts `this.context.close()`,
\* else `if (this.browser)` starts `this.browser.close()`, else it returns.
\* request holds the browser whose close() the call awaits.
StartCleanup(p) ==
  /\ pc[p] \in {"idle", "done"}
  /\ invocations < MaxInvocations
  /\ invocations' = invocations + 1
  /\ FreshInvocation(p, "cleanup", [browser |-> IF context = 0 THEN browser ELSE 0])
  /\ pageCtx' = [pageCtx EXCEPT ![p] = context]
  /\ pc' = [pc EXCEPT ![p] = IF context # 0 THEN "closeContext"
                             ELSE IF browser # 0 THEN "closeBrowser"
                             ELSE "done"]
  /\ UNCHANGED <<shared, resolver, logVars, frontVars>>

\* cleanup: `await this.context.close()` settles. When it returned,
\* `this.context = null` and the browser is looked at; when it raised, the
\* catch block logs and cleanup returns.
ContextCloseDone(p) ==
  /\ pc[p] = "closeContext"
  /\ \/ /\ torn' = [torn EXCEPT !.contexts = @ \cup {pageCtx[p]}]
        /\ context' = 0
        /\ request' = [request EXCEPT ![p] = [browser |-> browser]]
        /\ pc' = [pc EXCEPT ![p] = IF browser # 0 THEN "closeBrowser" ELSE "done"]
     \/ /\ pc' = [pc EXCEPT ![p] = "done"]
        /\ UNCHANGED <<torn, context, request>>
  /\ UNCHANGED <<resolver, logVars, frontVars, browser, launched, contexts, invocations, kind, ret,
                 pageMade, pageCtx, page, closeCalls, pageOpen, pageVars, flowVars>>

\* cleanup: `await this.browser.close()` settles. When it returned,
\* `this.browser = null`; when it raised, the catch block logs. cleanup returns.
BrowserCloseDone(p) ==
  /\ pc[p] = "closeBrowser"
  /\ \/ /\ torn' = [torn EXCEPT !.browsers = @ \cup {request[p].browser}]
        /\ browser' = 0
     \/ UNCHANGED <<torn, browser>>
  /\ pc' = [pc EXCEPT ![p] = "done"]
  /\ UNCHANGED <<resolver, logVars, frontVars, context, launched, contexts, invocations, kind, request,
                 ret, pageMade, pageCtx, page, closeCalls, pageOpen, pageVars, flowVars>>

\* createPage and cleanup called in any order, by one caller or by several.
NextSession ==
  \E p \in Procs :
    \/ StartOpen(p)
    \/ CreatePageStep(p)
    \/ Release(p)
    \/ StartCleanup(p)
    \/ ContextCloseDone(p)
    \/ BrowserCloseDone(p)

SpecSession == Init /\ [][NextSession]_vars

\* Every candidate list the flows hand to the resolver, and the empty one.
CandidateLists ==
  { <<>>, pathSelectorsWith, pathSelectorsWithout, continueSelectors, imeiSelectors,
    makeModelSelectors, phoneSelectors, firstNameSelectors, lastNameSelectors,
    emailSelectors, confirmEmailSelectors, termsSelectors, submitSelectors,
    statusImeiSelectors, requestIdSelectors, statusSubmitSelectors }

\* How one page.waitForSelector call ends: the element appears within the slice,
\* the slice runs out, or the call fails otherwise (page closed, bad selector).
WaitOutcomes == {"found", "timeout", "error"}

\* A call of a helper by itself returned `value` (or raised it, if it is no
\* value the helper returns) after the page operations `o`.
Called(p, k, r, o, value, values) ==
  /\ kind' = [kind EXCEPT ![p] = k]
  /\ request' = [request EXCEPT ![p] = r]
  /\ ops' = [ops EXCEPT ![p] = o]
  /\ acted' = [acted EXCEPT ![p] = Actions(o)]
  /\ IF value \in values
       THEN /\ result' = [result EXCEPT ![p] = [value |-> value]]
            /\ thrown' = [thrown EXCEPT ![p] = None]
       ELSE /\ result' = [result EXCEPT ![p] = NoResult]
            /\ thrown' = [thrown EXCEPT ![p] = value]
  /\ pc' = [pc EXCEPT ![p] = "done"]
  /\ UNCHANGED <<resolver, logVars, frontVars, shared, invocations, ret, pageMade, pageCtx, page, closeCalls,
                 pageOpen, pageVars, steps, err>>

\* waitForSelectorWithFallbacks(page, selectors) on a page where the wait for
\* each candidate ends as `waits` says.
CallResolver(p) ==
  /\ pc[p] = "idle"
  /\ \E selectors \in CandidateLists :
       \E waits \in [1..Len(selectors) -> WaitOutcomes] :
         LET appears ==
               {selectors[k] : k \in {j \in 1..Len(selectors) : waits[j] = "found"}}
         IN Called(p, "resolve", [selectors |-> selectors, waits |-> waits],
                   WaitsFrom(selectors, appears),
                   waitForSelectorWithFallbacks(selectors, appears),
                   Range(selectors) \cup {Null})

\* detectCaptcha(page) on a page that holds the markers `onPage`, the checks of
\* `raising` failing.
CallDetector(p) ==
  /\ pc[p] = "idle"
  /\ \E onPage \in {S \in SUBSET Range(captchaSelectors) : TRUE},
        raising \in {S \in SUBSET Range(captchaSelectors) : TRUE} :
       Called(p, "detect", [onPage |-> onPage, raising |-> raising],
              ChecksFrom(captchaSelectors, onPage, raising),
              detectCaptcha(onPage, raising), BOOLEAN)

\* selectMakeModel(page) on a page where the resolver returns `selector` and
\* the <select> holds `options`: it returns nothing, whatever happened.
CallSelectMakeModel(p) ==
  /\ pc[p] = "idle"
  /\ \E selector \in Resolved(makeModelSelectors), options \in OptionLists :
       \E run \in selectMakeModelOn(selector, options) :
         Called(p, "selectMakeModel", [selector |-> selector, options |-> options],
                run.ops, IF run.err = None THEN Null ELSE run.err, {Null})

\* The resolver, the detector and the make/model step called by themselves,
\* on every page.
NextCalls ==
  \E p \in FlowCallers :
    \/ CallResolver(p)
    \/ CallDetector(p)
    \/ CallSelectMakeModel(p)

SpecCalls == Init /\ [][NextCalls]_vars

\* What extractStatusInfo gives for each body text.
ClassificationTable == { <<text, extractStatusInfo(text)>> : text \in StatusTexts }
Classification(text) == (CHOOSE e \in ClassificationTable : e[1] = text)[2]

\* The caller that calls the classifier by itself: another than the flow caller.
ClassifierCallers == {p \in Procs : \A q \in Procs : p >= q}

\* extractStatusInfo(page) called by itself on a page whose body text is `text`.
CallClassifier(p) ==
  /\ pc[p] = "idle"
  /\ \E text \in StatusTexts :
       LET x == Classification(text)
       IN IF x.err = None
            THEN Called(p, "classify", [text |-> text], << "textContent" >>,
                        x.value, {x.value})
            ELSE Called(p, "classify", [text |-> text], << "textContent" >>, x.err, {})

\* The steps of a checkStatus call, from createPage on.
StatusStep(p) ==
  \/ CreatePageStep(p)
  \/ CreatePageFailed(p)
  \/ Navigate(p)
  \/ FillImei(p)
  \/ FillRequestId(p)
  \/ SubmitQuery(p)
  \/ Classify(p)
  \/ CatchStatus(p)
  \/ Finally(p)

\* The classifier called by itself by one caller, before, between or after
\* the status checks of the flow caller.
NextClassify ==
  \/ \E p \in ClassifierCallers : CallClassifier(p)
  \/ \E p \in FlowCallers : StartStatus(p) \/ StatusStep(p)

SpecClassify == Init /\ [][NextClassify]_vars

(* ------------------------------ the log store ------------------------ *)

\* The size the log store is cut back to (1000 in the source), how many logs
\* are created, and the last reading of the clock.
MaxLogs == 3
MaxCreated == 7
MaxClock == 4

\* Array.prototype.sort with (a, b) => b.timestamp - a.timestamp: latest
\* timestamp first, logs of one timestamp in the order they had.
RECURSIVE SortedByTimestamp(_)
SortedByTimestamp(logs) ==
  IF logs = <<>> THEN <<>>
  ELSE LET latest == CHOOSE t \in {logs[i].timestamp : i \in 1..Len(logs)} :
                       \A i \in 1..Len(logs) : logs[i].timestamp <= t
           IsLatest(log) == log.timestamp = latest
           IsEarlier(log) == log.timestamp # latest
       IN SelectSeq(logs, IsLatest) \o SortedByTimestamp(SelectSeq(logs, IsEarlier))

\* MemStorage.createLog: `this.systemLogs.set(id, log)`, and over the limit the
\* map is cleared and refilled with `sorted.slice(0, 1000)`.
createLog(logs, id, now) ==
  LET added == Append(logs, [id |-> id, timestamp |-> now])
  IN IF Len(added) > MaxLogs THEN SubSeq(SortedByTimestamp(added), 1, MaxLogs) ELSE added

\* A log is created: `timestamp: new Date()`, the clock never going back.
CreateLog ==
  /\ logsCreated < MaxCreated
  /\ logsCreated' = logsCreated + 1
  /\ \E now \in 1..MaxClock :
       /\ \A i \in 1..Len(systemLogs) : systemLogs[i].timestamp <= now
       /\ systemLogs' = createLog(systemLogs, logsCreated + 1, now)
  /\ UNCHANGED <<shared, resolver, frontVars, invocations, pc, kind, request, ret, pageMade,
                 pageCtx, page, closeCalls, pageOpen, pageVars, flowVars>>

NextLogs == CreateLog

SpecLogs == Init /\ [][NextLogs]_vars

(* ------------------------- the resolver's waits ----------------------- *)

\* `timeout = 10000`: the default, which every caller of the resolver leaves.
DefaultTimeout == 10000

\* The total timeouts a resolve call is followed with.
Timeouts == {DefaultTimeout, DefaultTimeout + 1, 7}

\* Variant: every candidate is given the whole timeout.
timeoutPerSelector_Whole(timeout, selectors) == [num |-> timeout, den |-> 1]

\* `timeout / selectors.length`, the option of each page.waitForSelector call:
\* the quotient, kept as a fraction of milliseconds.
timeoutPerSelector(timeout, selectors) == [num |-> timeout, den |-> Len(selectors)]

\* Time in a call on n candidates is counted in n-ths of a millisecond: a
\* fraction q of milliseconds in those ticks.
InTicks(q, n) == (q.num * n) \div q.den

\* How long a wait with the limit `limit` may last: an element that appears
\* does so within the limit, the limit runs out at the limit, and another
\* rejection comes before it.
Lasting(outcome, limit) ==
  IF outcome = "timeout" THEN {limit} ELSE {0, limit \div 2, limit}

\* waitForSelectorWithFallbacks(page, selectors, timeout) is called.
StartResolve(p) ==
  /\ pc[p] = "idle"
  /\ \E selectors \in CandidateLists, timeout \in Timeouts :
       resolver' = [resolver EXCEPT ![p] =
         [selectors |-> selectors, timeout |-> timeout, i |-> 1, inFlight |-> {},
          limit |-> [num |-> 0, den |-> 1], clock |-> 0, from |-> 0, till |-> 0,
          longest |-> 0, total |-> 0]]
  /\ kind' = [kind EXCEPT ![p] = "waits"]
  /\ pc' = [pc EXCEPT ![p] = "for"]
  /\ UNCHANGED <<shared, logVars, frontVars, invocations, request, ret, pageMade, pageCtx, page,
                 closeCalls, pageOpen, pageVars, flowVars>>

\* `for (const selector of selectors)`: with no candidate left `return null`;
\* else `page.waitForSelector(selector, { timeout: timeout / selectors.length })`
\* is called and awaited.
ResolverNext(p) ==
  /\ pc[p] = "for"
  /\ LET r == resolver[p]
     IN IF r.i > Len(r.selectors)
          THEN /\ result' = [result EXCEPT ![p] = [value |-> Null]]
               /\ pc' = [pc EXCEPT ![p] = "done"]
               /\ UNCHANGED resolver
          ELSE /\ resolver' = [resolver EXCEPT ![p] =
                    [r EXCEPT !.inFlight = @ \cup {r.i},
                              !.limit = timeoutPerSelector(r.timeout, r.selectors),
                              !.from = r.clock]]
               /\ pc' = [pc EXCEPT ![p] = "waitForSelector"]
               /\ UNCHANGED result
  /\ UNCHANGED <<shared, logVars, frontVars, invocations, kind, request, ret, pageMade, pageCtx,
                 page, closeCalls, pageOpen, pageVars, steps, ops, acted, err, thrown>>

\* The awaited wait settles: `return selector` when the element appeared, and
\* the catch block and the next candidate when the wait raised.
ResolverSettled(p) ==
  /\ pc[p] = "waitForSelector"
  /\ LET r == resolver[p]
         n == Len(r.selectors)
     IN \E outcome \in WaitOutcomes :
          \E d \in Lasting(outcome, InTicks(r.limit, n)) :
            /\ resolver' = [resolver EXCEPT ![p] =
                 [r EXCEPT !.inFlight = @ \ {r.i},
                           !.clock = @ + d,
                           !.till = r.clock + d,
                           !.longest = IF d > @ THEN d ELSE @,
                           !.total = @ + d,
                           !.i = IF outcome = "found" THEN @ ELSE @ + 1]]
            /\ IF outcome = "found"
                 THEN /\ result' = [result EXCEPT ![p] = [value |-> r.selectors[r.i]]]
                      /\ pc' = [pc EXCEPT ![p] = "done"]
                 ELSE /\ pc' = [pc EXCEPT ![p] = "for"]
                      /\ UNCHANGED result
  /\ UNCHANGED <<shared, logVars, frontVars, invocations, kind, request, ret, pageMade, pageCtx,
                 page, closeCalls, pageOpen, pageVars, steps, ops, acted, err, thrown>>

\* One resolve call, followed from its first wait to its return.
NextWaits ==
  \E p \in FlowCallers :
    \/ StartResolve(p)
    \/ ResolverNext(p)
    \/ ResolverSettled(p)

SpecWaits == Init /\ [][NextWaits]_vars

(* ------------------------ front ends: bot and API --------------------- *)

\* config.OWNER_ID, and the chats updates come from.
OWNER_ID == "1001"
Chats == {OWNER_ID, "2002"}

\* The bot's messages, without their leading pictograph.
Refusal == "Este bot es privado. Solo el propietario autorizado puede usarlo."
ValidationError == "*Error de validación:*"

\* String.prototype.split(sep), for a separator of one character.
RECURSIVE split(_, _)
split(s, sep) ==
  LET at == {k \in 1..Len(s) : CharAt(s, k) = sep}
  IN IF at = {} THEN << s >>
     ELSE LET n == CHOOSE k \in at : \A m \in at : k <= m
          IN << SubSeq(s, 1, n - 1) >> \o split(SubSeq(s, n + 1, Len(s)), sep)

\* args.split(',').map(part => part.trim())
Parts(args) == LET raw == split(args, ",") IN [k \in 1..Len(raw) |-> trim(raw[k])]

\* firstName and lastName out of the name part: the first word, and the other
\* words joined (`|| the first word` when there are none).
NameOf(full) ==
  LET words == split(full, " ")
      others == join(Tail(words))
  IN [firstName |-> words[1], lastName |-> IF others = "" THEN words[1] ELSE others]

\* parseSubmissionArgs(args): the error it throws (None: none) and the record
\* it returns; a field it does not set is None.
parseSubmissionArgs(args) ==
  LET parts == Parts(args)
  IN IF Len(parts) = 3
       THEN [err |-> None,
             value |-> [phoneNumber |-> None, imei |-> parts[1],
                        firstName |-> NameOf(parts[2]).firstName,
                        lastName |-> NameOf(parts[2]).lastName, email |-> parts[3]]]
     ELSE IF Len(parts) = 4
       THEN [err |-> None,
             value |-> [phoneNumber |-> parts[1], imei |-> parts[2],
                        firstName |-> NameOf(parts[3]).firstName,
                        lastName |-> NameOf(parts[3]).lastName, email |-> parts[4]]]
     ELSE [err |-> "Formato incorrecto. Use el formato especificado en /start", value |-> NoResult]

\* parseStatusArgs(args)
parseStatusArgs(args) ==
  LET parts == Parts(args)
  IN IF Len(parts) # 2 THEN [err |-> "Formato incorrecto. Use: IMEI, REQUEST_ID", value |-> NoResult]
     ELSE [err |-> None, value |-> [imei |-> parts[1], requestId |-> parts[2]]]

ImeiDigits == 15
PhoneDigits == 10

\* /^\d{n}$/
IsDigits(s, n) == Len(s) = n /\ \A i \in 1..n : HasChar(Digits, CharAt(s, i))

\* z.string().email(): one '@' after a non-empty local part, then a domain of
\* two or more non-empty labels, the last of two characters or more, and no
\* blank anywhere.
IsEmail(s) ==
  LET halves == split(s, "@")
  IN /\ Len(halves) = 2
     /\ halves[1] # ""
     /\ ~HasChar(s, " ")
     /\ LET labels == split(halves[2], ".")
        IN /\ Len(labels) >= 2
           /\ \A k \in 1..Len(labels) : labels[k] # ""
           /\ Len(labels[Len(labels)]) >= 2

\* One check of a schema: the issue it raises on field value v (Required when
\* the field is missing).
Issue(v, optional, ok, message) ==
  IF v = None THEN (IF optional THEN <<>> ELSE << "Required" >>)
  ELSE IF ok THEN <<>> ELSE << message >>

\* Variant: the schema takes any string for the IMEI.
insertUnlockRequestSchema_AnyImei(r) ==
  Issue(r.imei, FALSE, TRUE, "IMEI debe tener 15 dígitos")
  \o Issue(r.phoneNumber, TRUE, IsDigits(r.phoneNumber, PhoneDigits),
           "Número debe tener 10 dígitos")
  \o Issue(r.email, FALSE, IsEmail(r.email), "Email inválido")
  \o Issue(r.firstName, FALSE, Len(r.firstName) >= 1, "Nombre requerido")
  \o Issue(r.lastName, FALSE, Len(r.lastName) >= 1, "Apellido requerido")

\* insertUnlockRequestSchema.parse(r): the issues of the ZodError it throws
\* (none: r is returned).
insertUnlockRequestSchema(r) ==
  Issue(r.imei, FALSE, IsDigits(r.imei, ImeiDigits), "IMEI debe tener 15 dígitos")
  \o Issue(r.phoneNumber, TRUE, IsDigits(r.phoneNumber, PhoneDigits),
           "Número debe tener 10 dígitos")
  \o Issue(r.email, FALSE, IsEmail(r.email), "Email inválido")
  \o Issue(r.firstName, FALSE, Len(r.firstName) >= 1, "Nombre requerido")
  \o Issue(r.lastName, FALSE, Len(r.lastName) >= 1, "Apellido requerido")

\* statusCheckSchema.parse(q)
statusCheckSchema(q) ==
  Issue(q.imei, FALSE, IsDigits(q.imei, ImeiDigits), "IMEI debe tener 15 dígitos")
  \o Issue(q.requestId, FALSE, Len(q.requestId) >= 1, "Request ID requerido")

\* `x || null`
OrNull(x) == IF x \in {None, Null, ""} THEN Null ELSE x

\* MemStorage.createUnlockRequest(insertRequest): the record it puts into the
\* map (its random id and its timestamps are left out).
createUnlockRequest(insertRequest) ==
  [imei |-> insertRequest.imei, phoneNumber |-> insertRequest.phoneNumber,
   firstName |-> insertRequest.firstName, lastName |-> insertRequest.lastName,
   email |-> insertRequest.email,
   requestId |-> OrNull(insertRequest.requestId),
   status |-> IF insertRequest.status \in {None, Null, ""} THEN "pending"
              ELSE insertRequest.status,
   captchaDetected |-> FALSE,
   errorMessage |-> Null,
   statusDetails |-> Null,
   lastCheckedAt |-> Null]

\* MemStorage.updateUnlockRequest(id, updates) on the map `store`, a request's
\* id being its place in it: `{ ...existing, ...updates }`, or nothing changed
\* for an id the map does not hold.
updateUnlockRequest(store, id, updates) ==
  IF id \notin 1..Len(store) THEN store
  ELSE [store EXCEPT ![id] =
          [f \in DOMAIN @ |-> IF f \in DOMAIN updates THEN updates[f] ELSE @[f]]]

\* MemStorage.getUnlockRequestByRequestId(requestId): the id of the first
\* request of the map that carries it, 0 for undefined.
getUnlockRequestByRequestId(store, requestId) ==
  LET found == {k \in 1..Len(store) : store[k].requestId = requestId}
  IN IF found = {} THEN 0 ELSE CHOOSE k \in found : \A j \in found : k <= j

\* Variant: a failed check leaves the stored status and details as they were.
StatusUpdates_SuccessOnly(res, now) ==
  IF res.success
    THEN [status |-> res.status, statusDetails |-> OrNull(res.details), lastCheckedAt |-> now]
    ELSE [lastCheckedAt |-> now]

\* The updates both front ends hand to updateUnlockRequest after a check:
\* {status: result.status, statusDetails: result.details || null,
\*  lastCheckedAt: new Date()}
StatusUpdates(res, now) ==
  [status |-> res.status, statusDetails |-> OrNull(res.details), lastCheckedAt |-> now]

\* The argument both front ends hand to createUnlockRequest:
\* {...validated, requestId: result.requestId || null, status: ..., captchaDetected:
\*  result.captchaDetected, errorMessage: result.errorMessage || null}
StoreArgument(validated, res) ==
  [imei |-> validated.imei, phoneNumber |-> validated.phoneNumber,
   firstName |-> validated.firstName, lastName |-> validated.lastName,
   email |-> validated.email,
   requestId |-> OrNull(res.requestId),
   status |-> IF res.success THEN "pending" ELSE "unknown",
   captchaDetected |-> res.captchaDetected,
   errorMessage |-> OrNull(res.errorMessage)]

\* The text messages sent to the bot. Each matches one of the routes of
\* setupCommands at most, and none holds a line break.
BotTexts ==
  { "/start", "/help", "hola", "/desbloquear",
    "/solicitar 353012345678901, Juan Perez, juan@example.com",
    "/solicitar 5551234567, 353012345678901, Juan Perez, juan@example.com",
    "/solicitar 35301234567890, Juan Perez, juan@example.com",
    "/solicitar 555123456, 353012345678901, Juan Perez, juan@example.com",
    "/solicitar 353012345678901, Juan Perez, juan.example.com",
    "/solicitar 353012345678901, , juan@example.com",
    "/solicitar 353012345678901",
    "/status 353012345678901, NUL117557332822",
    "/status 490154203237518, NUL117557332822",
    "/status 3530, NUL117557332822" }

\* The callback data of the inline buttons, and one no button carries.
CallbackData ==
  { "help_solicitar", "help_status", "show_examples", "show_help",
    "check_status_NUL117557332822", "refresh_status_353012345678901_NUL117557332822",
    "other" }

\* The bodies posted to /api/requests.
ApiBodies ==
  { [imei |-> "353012345678901", phoneNumber |-> None, firstName |-> "Juan",
     lastName |-> "Perez", email |-> "juan@example.com"],
    [imei |-> "353012345678901", phoneNumber |-> "5551234567", firstName |-> "Juan",
     lastName |-> "Perez", email |-> "juan@example.com"],
    [imei |-> "3530123456789012", phoneNumber |-> None, firstName |-> "Juan",
     lastName |-> "Perez", email |-> "juan@example.com"],
    [imei |-> "35301234567890A", phoneNumber |-> None, firstName |-> "Juan",
     lastName |-> "Perez", email |-> "juan@example.com"],
    [imei |-> "353012345678901", phoneNumber |-> "55512345678", firstName |-> "Juan",
     lastName |-> "Perez", email |-> "juan@example.com"],
    [imei |-> "353012345678901", phoneNumber |-> None, firstName |-> "Juan",
     lastName |-> "Perez", email |-> "juan@example"],
    [imei |-> "353012345678901", phoneNumber |-> None, firstName |-> "",
     lastName |-> "Perez", email |-> "juan@example.com"],
    [imei |-> "353012345678901", phoneNumber |-> None, firstName |-> "Juan",
     lastName |-> None, email |-> "juan@example.com"] }

\* The match of /\/<command> (.+)/ in a text of one line: what follows the
\* first "/<command> ", when something does (None: no match).
ArgsOf(text, command) ==
  LET lead == "/" \o command \o " "
      at == {i \in 1..(Len(text) - Len(lead)) : SubSeq(text, i, i + Len(lead) - 1) = lead}
  IN IF at = {} THEN None
     ELSE SubSeq(text, (CHOOSE i \in at : \A j \in at : i <= j) + Len(lead), Len(text))

\* The routes of setupCommands a text message fires, in registration order.
Routes(text) ==
  (IF includes(text, "/start") THEN << "start" >> ELSE <<>>)
  \o (IF ArgsOf(text, "solicitar") # None THEN << "solicitar" >> ELSE <<>>)
  \o (IF ArgsOf(text, "status") # None THEN << "status" >> ELSE <<>>)
  \o (IF includes(text, "/help") THEN << "help" >> ELSE <<>>)
  \o (IF ~StartsWith(text, "/") THEN << "message" >> ELSE <<>>)

\* The update is answered with `messages` after `handlers` ran; no flow starts.
Answered(p, handlers, messages) ==
  /\ handled' = [handled EXCEPT ![p] = handlers]
  /\ replies' = [replies EXCEPT ![p] = messages]
  /\ pc' = [pc EXCEPT ![p] = "replied"]
  /\ UNCHANGED <<shared, resolver, logVars, invocations, kind, request, ret, pageMade, pageCtx, page,
                 closeCalls, pageOpen, pageVars, flowVars, stored>>

\* Variant: a negative index counts from the end of the string, as in slice.
substring_FromEnd(str, start, end) ==
  LET from == IF start < 0 THEN Len(str) + start ELSE start
  IN SubSeq(str, from + 1, end)

\* String.prototype.substring(start, end): an index below 0 is taken as 0, one
\* beyond the length as the length, and the smaller of the two comes first.
substring(str, start, end) ==
  LET Clamp(x) == IF x < 0 THEN 0 ELSE IF x > Len(str) THEN Len(str) ELSE x
      a == Clamp(start)
      b == Clamp(end)
  IN IF a <= b THEN SubSeq(str, a + 1, b) ELSE SubSeq(str, b + 1, a)

\* The IMEI line of a reply, its pictograph and back quotes left out:
\* ${imei.substring(0, 6)}...${imei.substring(-4)}
ImeiLine(imei) ==
  "*IMEI:* " \o substring(imei, 0, 6) \o "..." \o substring(imei, -4, Len(imei)) \o "\n"

\* A handler calls a flow: the call begins, as in StartSubmit and StartStatus.
FlowCalled(p, handlers, messages, k, r) ==
  /\ handled' = [handled EXCEPT ![p] = handlers]
  /\ replies' = [replies EXCEPT ![p] = messages]
  /\ invocations' = invocations + 1
  /\ FreshInvocation(p, k, r)
  /\ CallCreatePage(p)
  /\ UNCHANGED <<shared, resolver, logVars, stored>>

\* handleSolicitar(msg, args) up to `await attFlow.submitUnlockRequest(...)`.
handleSolicitar(p, args) ==
  LET parsed == parseSubmissionArgs(args)
  IN IF parsed.err # None
       THEN Answered(p, {"handleSolicitar"}, << "Error: " \o parsed.err >>)
     ELSE IF insertUnlockRequestSchema(parsed.value) # <<>>
       THEN Answered(p, {"handleSolicitar"}, << ValidationError >>)
     ELSE FlowCalled(p, {"handleSolicitar"}, << "Procesando solicitud de desbloqueo..." >>, "submit", parsed.value)

\* handleStatus(msg, args) up to `await statusChecker.checkStatus(...)`.
handleStatus(p, args) ==
  LET parsed == parseStatusArgs(args)
  IN IF parsed.err # None
       THEN Answered(p, {"handleStatus"}, << "Error: " \o parsed.err >>)
     ELSE IF statusCheckSchema(parsed.value) # <<>>
       THEN Answered(p, {"handleStatus"}, << ValidationError >>)
     ELSE FlowCalled(p, {"handleStatus"}, << "Consultando estado en el portal de AT&T..." >>, "status",
                     [imei |-> parsed.value.imei, phoneNumber |-> None,
                      requestId |-> parsed.value.requestId])

\* handleCommand: `chatId !== config.OWNER_ID` refuses and returns.
Authorized(chat) == chat = OWNER_ID

\* A text message arrives: every route of setupCommands it fires goes through
\* handleCommand, which refuses a chat other than the owner's and runs the
\* handler otherwise.
MessageOf(p, texts) ==
  /\ pc[p] = "idle"
  /\ \E chat \in Chats, text \in texts :
       LET routes == Routes(text)
       IN /\ update' = [update EXCEPT ![p] = [type |-> "message", chat |-> chat,
                                               text |-> text]]
          /\ IF ~Authorized(chat)
               THEN Answered(p, {}, [k \in 1..Len(routes) |-> Refusal])
             ELSE IF routes = <<>> THEN Answered(p, {}, <<>>)
             ELSE IF routes[1] \in {"start", "help"}
               THEN Answered(p, {"handleStart"}, << "*AT&T Device Unlock Bot*" >>)
             ELSE IF routes[1] = "message"
               THEN Answered(p, {"handleUnknown"}, << "Comando no reconocido." >>)
             ELSE IF routes[1] = "solicitar"
               THEN handleSolicitar(p, ArgsOf(text, "solicitar"))
             ELSE handleStatus(p, ArgsOf(text, "status"))

BotMessage(p) == MessageOf(p, BotTexts)

\* handleCallbackQuery(query): the action the button's data selects.
CallbackAction(data) ==
  IF data = "help_solicitar" THEN "showSolicitarHelp"
  ELSE IF data = "help_status" THEN "showStatusHelp"
  ELSE IF data = "show_examples" THEN "showExamples"
  ELSE IF data = "show_help" THEN "handleStart"
  ELSE IF StartsWith(data, "check_status_") \/ StartsWith(data, "refresh_status_")
    THEN "handleQuickStatus"
  ELSE None

\* A callback query arrives: the 'callback_query' listener calls
\* handleCallbackQuery at once; each action sends one message to the chat.
BotCallbackQuery(p) ==
  /\ pc[p] = "idle"
  /\ \E chat \in Chats, data \in CallbackData :
       /\ update' = [update EXCEPT ![p] = [type |-> "callback_query", chat |-> chat,
                                            data |-> data]]
       /\ IF CallbackAction(data) = None THEN Answered(p, {}, <<>>)
          ELSE Answered(p, {CallbackAction(data)}, << CallbackAction(data) >>)

\* handleSolicitar after submitUnlockRequest returned: the request is stored and
\* the outcome is reported to the chat.
SolicitarDone(p) ==
  /\ pc[p] = "done"
  /\ kind[p] = "submit"
  /\ update[p].type = "message"
  /\ stored' = Append(stored, createUnlockRequest(StoreArgument(request[p], result[p])))
  /\ replies' = [replies EXCEPT ![p] =
       Append(@, IF result[p].success
                   THEN "*Solicitud enviada exitosamente*\n" \o ImeiLine(request[p].imei)
                 ELSE IF result[p].captchaDetected THEN "*CAPTCHA Detectado*"
                 ELSE "*Error en la solicitud*")]
  /\ pc' = [pc EXCEPT ![p] = "replied"]
  /\ UNCHANGED <<shared, resolver, logVars, invocations, kind, request, ret, pageMade, pageCtx, page,
                 closeCalls, pageOpen, pageVars, flowVars, update, handled>>

\* handleStatus after checkStatus returned: the stored request with that
\* request id, if there is one, is updated, and the outcome is reported.
StatusDone(p) ==
  /\ pc[p] = "done"
  /\ kind[p] = "status"
  /\ update[p].type = "message"
  /\ \E now \in Instants :
       stored' = updateUnlockRequest(stored,
                                     getUnlockRequestByRequestId(stored, request[p].requestId),
                                     StatusUpdates(result[p], now))
  /\ replies' = [replies EXCEPT ![p] =
       Append(@, IF result[p].success
                   THEN "*Estado de la solicitud*\n" \o ImeiLine(request[p].imei)
                 ELSE "*Error al consultar estado*")]
  /\ pc' = [pc EXCEPT ![p] = "replied"]
  /\ UNCHANGED <<shared, resolver, logVars, invocations, kind, request, ret, pageMade, pageCtx, page,
                 closeCalls, pageOpen, pageVars, flowVars, update, handled>>

\* POST /api/requests up to `await attFlow.submitUnlockRequest(validated)`: a
\* body the schema rejects is answered with 400.
ApiPostRequests(p) ==
  /\ pc[p] = "idle"
  /\ \E body \in ApiBodies :
       /\ update' = [update EXCEPT ![p] = [type |-> "api", body |-> body]]
       /\ IF insertUnlockRequestSchema(body) # <<>>
            THEN Answered(p, {}, << "400" >>)
            ELSE FlowCalled(p, {}, <<>>, "submit", body)

\* POST /api/requests after submitUnlockRequest returned: the request is stored
\* and answered together with the result.
ApiPostDone(p) ==
  /\ pc[p] = "done"
  /\ kind[p] = "submit"
  /\ update[p].type = "api"
  /\ stored' = Append(stored, createUnlockRequest(StoreArgument(request[p], result[p])))
  /\ replies' = [replies EXCEPT ![p] = Append(@, "200")]
  /\ pc' = [pc EXCEPT ![p] = "replied"]
  /\ UNCHANGED <<shared, resolver, logVars, invocations, kind, request, ret, pageMade, pageCtx, page,
                 closeCalls, pageOpen, pageVars, flowVars, update, handled>>

\* POST /api/requests/:id/check-status up to `await statusChecker.checkStatus(
\* request.imei, request.requestId)`: 404 for an id the store does not hold, 400
\* for a stored request without a request id.
ApiCheckStatus(p) ==
  /\ pc[p] = "idle"
  /\ \E id \in 1..(Len(stored) + 1) :
       /\ update' = [update EXCEPT ![p] = [type |-> "check", id |-> id]]
       /\ IF id > Len(stored) THEN Answered(p, {}, << "404" >>)
          ELSE IF stored[id].requestId = Null THEN Answered(p, {}, << "400" >>)
          ELSE FlowCalled(p, {}, <<>>, "status",
                          [imei |-> stored[id].imei, phoneNumber |-> None,
                           requestId |-> stored[id].requestId])

\* POST /api/requests/:id/check-status after checkStatus returned: the stored
\* request is updated and answered together with the result.
ApiCheckDone(p) ==
  /\ pc[p] = "done"
  /\ kind[p] = "status"
  /\ update[p].type = "check"
  /\ \E now \in Instants :
       stored' = updateUnlockRequest(stored, update[p].id, StatusUpdates(result[p], now))
  /\ replies' = [replies EXCEPT ![p] = Append(@, "200")]
  /\ pc' = [pc EXCEPT ![p] = "replied"]
  /\ UNCHANGED <<shared, resolver, logVars, invocations, kind, request, ret, pageMade, pageCtx, page,
                 closeCalls, pageOpen, pageVars, flowVars, update, handled>>

\* The steps of a flow call, from createPage on.
FlowStep(p) ==
  \/ CreatePageStep(p)
  \/ CreatePageFailed(p)
  \/ Load(p)
  \/ PathSelect(p)
  \/ DeviceInfo(p)
  \/ PersonalInfo(p)
  \/ Submit(p)
  \/ ExtractConfirmation(p)
  \/ CatchSubmit(p)
  \/ Navigate(p)
  \/ FillImei(p)
  \/ FillRequestId(p)
  \/ SubmitQuery(p)
  \/ Classify(p)
  \/ CatchStatus(p)
  \/ Finally(p)

\* One update of the bot, or one request to the API, served from the state
\* after construction, the flows it calls included.
NextFront ==
  \E p \in FlowCallers :
    \/ BotMessage(p)
    \/ BotCallbackQuery(p)
    \/ ApiPostRequests(p)
    \/ FlowStep(p)
    \/ SolicitarDone(p)
    \/ StatusDone(p)
    \/ ApiPostDone(p)

SpecFront == Init /\ [][NextFront]_vars

\* The results of the submissions and of the status checks served earlier.
EarlierSubmissions ==
  { [success |-> TRUE, requestId |-> "NUL117557332822", deadlineISO |-> None,
     captchaDetected |-> FALSE, errorMessage |-> None],
    SubmitFailure(FALSE, ErrNoPath) }
EarlierChecks ==
  { [success |-> TRUE, status |-> s, details |-> "Status: " \o s, errorMessage |-> None] :
      s \in {"approved", "denied", "pending"} }

\* What earlier updates left in the store: one request as POST /api/requests
\* or /solicitar stored it, a status check made on it since or not, and a
\* second request, of a failed submission, before it or not.
StoredBefore ==
  LET body == CHOOSE b \in ApiBodies : insertUnlockRequestSchema(b) = <<>>
      Made(res) == createUnlockRequest(StoreArgument(body, res))
      one == { << Made(res) >> : res \in EarlierSubmissions }
      checked == { updateUnlockRequest(st, 1, StatusUpdates(res, 0)) :
                     st \in one, res \in EarlierChecks }
  IN Flat({ one, { st \in checked : st[1].requestId # Null },
             { << Made(SubmitFailure(FALSE, ErrNoPath)) >> \o st :
                 st \in { c \in checked : c[1].requestId # Null } } })

\* The store as earlier updates left it, before the update that is followed.
Earlier(p) ==
  /\ pc[p] = "idle"
  /\ stored = <<>>
  /\ \E st \in StoredBefore : stored' = st
  /\ UNCHANGED <<shared, resolver, logVars, invocations, pc, kind, request, ret, pageMade, pageCtx,
                 page, closeCalls, pageOpen, pageVars, flowVars, update, handled, replies>>

\* One status check asked for through the bot or the API, on the store as
\* earlier updates left it.
NextStored ==
  \E p \in FlowCallers :
    \/ Earlier(p)
    \/ MessageOf(p, {t \in BotTexts : Routes(t) = << "status" >>})
    \/ ApiCheckStatus(p)
    \/ StatusStep(p)
    \/ StatusDone(p)
    \/ ApiCheckDone(p)

SpecStored == Init /\ [][NextStored]_vars

\* The flows under the assumption that every awaited operation settles: the
\* step that waits for it is taken, with the operation's value or its error.
SpecLive == Init /\ [][Next]_vars /\ \A p \in FlowCallers : WF_vars(FlowStep(p))

(* ------------------------------- claims ------------------------------- *)

Flows == {"submit", "status"}

\* The body text read for p, as the text of the portal it is: TLC compares
\* the strings held in a state by identity, and keeps the letters of a string
\* beyond ASCII faithfully in the definitions only.
BodyText(p) ==
  CHOOSE t \in Flat({PageTexts, StatusTexts, {None, Null}}) : t = bodyText[p]

\* The invocation of p returned to its caller.
Returned(p) == pc[p] = "done" /\ kind[p] \in Flows

\* C1: on every exit path of submitUnlockRequest and checkStatus, a page that
\* was created for the invocation has had closePage called on it exactly once
\* when the result is returned.
C1_PageClosedOnEveryExit ==
  \A p \in Procs : (Returned(p) /\ pageMade[p]) => closeCalls[p] = 1

\* C2: every returned SubmissionResult and StatusResult is self-consistent:
\* success implies no errorMessage, and a submission with captchaDetected is not
\* a success.
C2_ResultSelfConsistent ==
  \A p \in Procs :
    (kind[p] \in Flows /\ result[p] # NoResult) =>
      /\ result[p].success => result[p].errorMessage = None
      /\ (kind[p] = "submit" /\ result[p].captchaDetected) => ~result[p].success

\* A submission that failed after the page existed, with a CAPTCHA seen by the
\* catch block, has been returned.
C2_Witness ==
  \E p \in Procs :
    /\ Returned(p) /\ kind[p] = "submit"
    /\ result[p].captchaDetected /\ result[p].errorMessage = ErrNoImei

\* The CAPTCHA detector answered true right after the entry URL was loaded.
CaptchaAtLoad(p) ==
  kind[p] = "submit" /\ ops[p] = << "goto", "detectCaptcha:true" >>

\* C3: when the detector is positive right after the entry URL is loaded, the
\* flow ends at once with success=false and captchaDetected=true, and no later
\* step (path click, fill, terms check, submit click, extraction) touches the page.
C3_CaptchaAtLoadEndsFlow ==
  \A p \in Procs :
    CaptchaAtLoad(p) =>
      /\ pc[p] \in {"finally", "done"}
      /\ steps[p] = << "Load" >>
      /\ acted[p] = {"goto"}
      /\ bodyText[p] = None
      /\ result[p] # NoResult
      /\ ~result[p].success
      /\ result[p].captchaDetected

C3_Witness == \E p \in Procs : CaptchaAtLoad(p) /\ pc[p] = "done"

\* C4: whenever a known CAPTCHA marker is on the page when the submission flow
\* produces its result, the result has captchaDetected=true.
C4_CaptchaAlwaysReported ==
  \A p \in Procs :
    (Returned(p) /\ kind[p] = "submit" /\ pageCaptcha[p]) => result[p].captchaDetected

\* createPage failed for the invocation of p.
OpenFailed(p) == kind[p] \in Flows /\ ret[p] \notin {None, "ok"}

\* C5 as stated: a failure to open the page session is not converted into a
\* result record; it leaves submitUnlockRequest / checkStatus as an error.
C5_OpenFailurePropagates ==
  \A p \in Procs :
    (Returned(p) /\ OpenFailed(p)) => (thrown[p] # None /\ result[p] = NoResult)

\* C5, amended: a failure to open the page session is caught at the flow
\* boundary like every other error: the flow returns success=false with the
\* cause as errorMessage (captchaDetected=false, status unknown) and nothing
\* is thrown to the caller by any invocation.
C5_OpenFailureBecomesResult ==
  \A p \in Procs :
    Returned(p) =>
      /\ thrown[p] = None
      /\ result[p] # NoResult
      /\ OpenFailed(p) =>
           /\ ~result[p].success
           /\ result[p].errorMessage = ret[p]
           /\ kind[p] = "submit" => ~result[p].captchaDetected
           /\ kind[p] = "status" => result[p].status = "unknown"
           /\ ~page[p]

C5_Witness ==
  \E p \in Procs : Returned(p) /\ ret[p] = LaunchError /\ kind[p] = "status"

\* C6: an exception in any step of the submission flow is caught once at the
\* top level and yields {success:false, captchaDetected:c, errorMessage:cause},
\* c being the detector's answer on the page at that moment (false when there
\* is no page); the catch path throws nothing.
C6_CatchYieldsFailureRecord ==
  \A p \in Procs :
    (kind[p] = "submit" /\ err[p] # None /\ pc[p] \in {"finally", "done"}) =>
      /\ thrown[p] = None
      /\ result[p] # NoResult
      /\ ~result[p].success
      /\ result[p].errorMessage = err[p]
      /\ result[p].requestId = None
      /\ result[p].deadlineISO = None
      /\ ~page[p] => ~result[p].captchaDetected
      /\ result[p].captchaDetected => pageCaptcha[p]
      /\ (page[p] /\ pageCaptcha[p] /\ ~checkThrew[p]) => result[p].captchaDetected

C6_Witness ==
  \E p \in Procs :
    /\ Returned(p) /\ kind[p] = "submit" /\ err[p] = ErrNoSubmit
    /\ pageCaptcha[p] /\ result[p].captchaDetected

\* No launch and no context creation has failed so far.
NoInitFailure ==
  launched = contexts + Cardinality({p \in Procs : pc[p] = "newContext"})

\* C7: for any interleaving of concurrent createPage calls that arrive while
\* the shared browser/context does not exist, initialisation happens once: at
\* most one browser is launched, one context created, and all callers get their
\* pages from that context.
C7_SingleInitialisation ==
  NoInitFailure =>
    /\ launched <= 1
    /\ contexts <= 1
    /\ \A p, q \in Procs : (pageMade[p] /\ pageMade[q]) => pageCtx[p] = pageCtx[q]

IsPrefix(a, b) == Len(a) <= Len(b) /\ a = SubSeq(b, 1, Len(a))

\* The position of each step's entry point in the order of the steps.
SubmitStepPcs ==
  << "created", "selectPath", "fillDeviceInfo", "fillPersonalInfo",
     "acceptTermsAndSubmit", "extract" >>

KeywordOccurs(text) ==
  /\ text # Null
  /\ \E k \in 1..Len(confirmationIndicators) :
       LET word == confirmationIndicators[k]
       IN \E i \in 1..(Len(text) - Len(word) + 1) :
            \A j \in 1..Len(word) :
              LowerChar(CharAt(text, i + j - 1)) = LowerChar(CharAt(word, j))

\* ExtractConfirmation read the page text in the invocation of p, and the
\* invocation has produced its result.
Extracted(p) ==
  /\ kind[p] = "submit"
  /\ pc[p] \in {"finally", "done"}
  /\ Len(steps[p]) = Len(SubmitSteps)
  /\ bodyText[p] # None

\* The query for form controls, if made, returned.
FormQueryReturned(p) == err[p] # TransportError

\* C9: at ExtractConfirmation the flow fails with the incomplete-submission
\* error iff no confirmation keyword occurs in the page text (case aside) and a
\* form or submit control is still there; in every other case (keyword found,
\* or neither keyword nor form control, empty text included) it returns
\* success=true. Presence of a control is what the query for controls
\* answers, so the cases are those in which that query returned.
C9_IncompleteIffNoKeywordAndForm ==
  \A p \in Procs :
    Extracted(p) =>
      LET incomplete == ~KeywordOccurs(BodyText(p)) /\ formLeft[p]
          r == result[p]
      IN /\ r # NoResult
         /\ KeywordOccurs(BodyText(p)) => FormQueryReturned(p)
         /\ FormQueryReturned(p) =>
              /\ incomplete <=> (~r.success /\ r.errorMessage = ErrIncomplete)
              /\ ~incomplete => (r.success /\ r.errorMessage = None)

C9_Witness ==
  \E p \in Procs :
    /\ Extracted(p) /\ Returned(p)
    /\ result[p].errorMessage = ErrIncomplete
    /\ bodyText[p] = "Case ABC123456789012"

\* A page whose only keyword is in upper case, with a form still on it, is a
\* success.
C9_WitnessKeyword ==
  \E p \in Procs :
    /\ Extracted(p) /\ Returned(p)
    /\ result[p].success /\ formLeft[p]
    /\ bodyText[p] = "CONFIRMACIÓN XABCD1234567890123"

\* A confirmation id: three upper-case letters, then twelve digits.
IsConfirmationId(w) ==
  /\ Len(w) = 15
  /\ \A k \in 1..3 : HasChar(AsciiUpper, CharAt(w, k))
  /\ \A k \in 4..15 : HasChar(Digits, CharAt(w, k))

\* The substrings of the text, by start position, that are confirmation ids.
IdPositions(text) ==
  IF text = Null THEN {}
  ELSE {i \in 1..(Len(text) - 14) : IsConfirmationId(SubSeq(text, i, i + 14))}

\* The number a string of digits denotes.
RECURSIVE Number(_)
Number(d) ==
  IF Len(d) = 0 THEN 0
  ELSE (10 * Number(SubSeq(d, 1, Len(d) - 1)))
         + ((CHOOSE n \in 1..10 : CharAt(Digits, n) = CharAt(d, Len(d))) - 1)

\* The instant, in milliseconds, that an ISO timestamp of January 1970 denotes.
InstantOf(iso) ==
  ((Number(SubSeq(iso, 9, 10)) - 1) * 86400000) + (Number(SubSeq(iso, 12, 13)) * 3600000)
    + (Number(SubSeq(iso, 15, 16)) * 60000) + (Number(SubSeq(iso, 18, 19)) * 1000)
    + Number(SubSeq(iso, 21, 23))

\* C10: a successful submission has captchaDetected=false, confirmationId the
\* leftmost substring of the page text made of three upper-case letters and
\* twelve digits (absent when there is none), and deadline the extraction time
\* plus exactly 24 hours; "Request submitted, ID: NUL117557332822" yields
\* NUL117557332822.
C10_SuccessRecord ==
  \A p \in Procs :
    (kind[p] = "submit" /\ result[p] # NoResult /\ result[p].success) =>
      /\ ~result[p].captchaDetected
      /\ IdPositions(BodyText(p)) = {} => result[p].requestId = None
      /\ \A i \in IdPositions(BodyText(p)) :
           (\A j \in IdPositions(BodyText(p)) : i <= j) =>
             result[p].requestId = SubSeq(BodyText(p), i, i + 14)
      /\ SubSeq(result[p].deadlineISO, 1, 8) = "1970-01-"
      /\ Len(result[p].deadlineISO) = 24
      /\ InstantOf(result[p].deadlineISO) = extractedAt[p] + 86400000
      /\ bodyText[p] = "Request submitted, ID: NUL117557332822" =>
           result[p].requestId = "NUL117557332822"

C10_Witness ==
  \E p \in Procs :
    /\ Returned(p) /\ kind[p] = "submit" /\ result[p].success
    /\ bodyText[p] = "GRACIAS! ABC123456789012 then XYZ000000000000"
    /\ result[p].requestId = "ABC123456789012"

\* C11: a deadline and a confirmation id are present in a SubmissionResult
\* only when success=true: every result with success=false, whatever the
\* failure (CAPTCHA at load, missing control, incomplete submission, transport
\* error), carries neither.
C11_DeadlineOnlyOnSuccess ==
  \A p \in Procs :
    (kind[p] = "submit" /\ result[p] # NoResult) =>
      /\ ~result[p].success =>
           (result[p].deadlineISO = None /\ result[p].requestId = None)
      /\ result[p].success => result[p].deadlineISO # None

\* An incomplete submission on a page that shows an id has been returned.
C11_Witness ==
  \E p \in Procs :
    /\ Returned(p) /\ kind[p] = "submit"
    /\ ~result[p].success /\ result[p].errorMessage = ErrIncomplete
    /\ IdPositions(BodyText(p)) # {}

\* The failures of the other kinds are returned too.
C11_WitnessKinds ==
  \E p \in Procs :
    /\ Returned(p) /\ kind[p] = "submit" /\ ~result[p].success
    /\ result[p].errorMessage \in {ErrCaptcha, ErrNoImei, TransportError}

\* The path control clicked in the invocation of p, if the latest step clicked one.
PathClicked(p) == {ops[p][i] : i \in {j \in 1..Len(ops[p]) : Kind(ops[p][j]) = "clickPath"}}

\* C12: for every submission whose carrier number is absent the only path
\* control the flow clicks is the 'without number' one, and when the carrier
\* number is present only a 'with number' control is clicked.
C12_PathMatchesCarrierNumber ==
  \A p \in Procs :
    kind[p] = "submit" =>
      PathClicked(p) \subseteq
        {IF request[p].phoneNumber = None THEN "clickPath:without" ELSE "clickPath:with"}

\* The half of C12 about an absent carrier number, which holds.
C12_WithoutNumberHalf ==
  \A p \in Procs :
    (kind[p] = "submit" /\ request[p].phoneNumber = None) =>
      PathClicked(p) \subseteq {"clickPath:without"}

\* The candidates, by position, whose wait returned in the resolver call of p.
FoundAt(p) ==
  {k \in 1..Len(request[p].selectors) : request[p].waits[k] = "found"}

\* C13: for every ordered candidate list and every page, the resolver returns
\* the earliest candidate in list order among those that appear within their
\* slice, having waited for the candidates before it and for no later one; if
\* the first candidate appears it is returned whatever later ones appear too.
C13_EarliestAppearingWins ==
  \A p \in Procs :
    kind[p] = "resolve" =>
      /\ result[p] # NoResult
      /\ \A k \in FoundAt(p) :
           (\A j \in FoundAt(p) : k <= j) =>
             /\ result[p].value = request[p].selectors[k]
             /\ Len(ops[p]) = k
      /\ 1 \in FoundAt(p) => result[p].value = Head(request[p].selectors)
      /\ \A i \in 1..Len(ops[p]) :
           ops[p][i] = "waitForSelector:" \o request[p].selectors[i]

\* The first candidate and a later one both appear.
C13_Witness ==
  \E p \in Procs :
    /\ kind[p] = "resolve"
    /\ {1, 3} \subseteq FoundAt(p)
    /\ result[p].value = Head(request[p].selectors)

\* The first candidates do not appear and two later ones do.
C13_WitnessLater ==
  \E p \in Procs :
    /\ kind[p] = "resolve"
    /\ FoundAt(p) = {3, 5}
    /\ result[p].value = request[p].selectors[3]

\* C14: the resolver never raises: when no candidate appears within its slice
\* (a wait failing for any reason and an empty list included) it returns null
\* as a value; whatever it returns is a candidate of the list or null.
C14_ResolverNeverRaises ==
  \A p \in Procs :
    kind[p] = "resolve" =>
      /\ thrown[p] = None
      /\ result[p] # NoResult
      /\ result[p].value \in Range(request[p].selectors) \cup {Null}
      /\ FoundAt(p) = {} <=> result[p].value = Null

\* No candidate appears, and a wait failed for another reason than its slice
\* running out.
C14_Witness ==
  \E p \in Procs :
    /\ kind[p] = "resolve"
    /\ FoundAt(p) = {}
    /\ \E k \in 1..Len(request[p].selectors) : request[p].waits[k] = "error"
    /\ result[p].value = Null

C14_WitnessEmpty ==
  \E p \in Procs :
    kind[p] = "resolve" /\ request[p].selectors = <<>> /\ result[p].value = Null

\* C15 as stated: detectCaptcha returns true for every page that holds at
\* least one known marker and false for every page that holds none.
C15_MarkerAlwaysDetected ==
  \A p \in Procs :
    kind[p] = "detect" =>
      /\ result[p] # NoResult
      /\ result[p].value <=> request[p].onPage # {}

\* C15, amended: detectCaptcha returns true exactly for the pages that hold a
\* known marker whose check does not fail; with no check failing that is every
\* page holding a marker, and a page holding none always yields false.
C15_DetectsCheckableMarker ==
  \A p \in Procs :
    kind[p] = "detect" =>
      /\ result[p] # NoResult
      /\ result[p].value <=> (request[p].onPage \ request[p].raising) # {}
      /\ request[p].raising = {} => (result[p].value <=> request[p].onPage # {})
      /\ request[p].onPage = {} => ~result[p].value

\* Only the last marker of the list is on the page, and it is detected.
C15_Witness ==
  \E p \in Procs :
    /\ kind[p] = "detect"
    /\ request[p].onPage = {captchaSelectors[Len(captchaSelectors)]}
    /\ request[p].raising = {}
    /\ result[p].value

\* C16: detectCaptcha never throws: a marker check that fails counts as not
\* found and the remaining markers are still checked in the fixed order, so a
\* later marker that is present still yields true; the detector only queries
\* the page (no click, fill or navigation).
C16_DetectorGoesOnAfterFailure ==
  \A p \in Procs :
    kind[p] = "detect" =>
      /\ thrown[p] = None
      /\ result[p] # NoResult
      /\ result[p].value \in BOOLEAN
      /\ (request[p].onPage \ request[p].raising) # {} => result[p].value
      /\ \A i \in 1..Len(ops[p]) : ops[p][i] = "$:" \o captchaSelectors[i]
      /\ ~result[p].value => Len(ops[p]) = Len(captchaSelectors)
      /\ result[p].value =>
           captchaSelectors[Len(ops[p])] \in request[p].onPage \ request[p].raising
      /\ acted[p] = {}

\* The check of the first marker fails and a later marker is found.
C16_Witness ==
  \E p \in Procs :
    /\ kind[p] = "detect"
    /\ request[p].raising = {Head(captchaSelectors)}
    /\ request[p].onPage = {captchaSelectors[4]}
    /\ result[p].value
    /\ Len(ops[p]) = 4

\* The submission of p stands after its n-th step, which ended with the error e.
FailedAt(p, n, e) ==
  /\ kind[p] = "submit"
  /\ pc[p] \in {"catch", "finally", "done"}
  /\ Len(steps[p]) = n
  /\ err[p] = e

\* C17: a required control that cannot be resolved aborts the submission with
\* a descriptive error in the result: DeviceInfo ends either with the IMEI
\* filled or in an error, Submit either with the submit control clicked or in an
\* error; a missing IMEI field or submit control yields success=false with its
\* own errorMessage, no later step runs, and with no submit control the form is
\* never submitted.
C17_RequiredControlMissingAborts ==
  \A p \in Procs :
    kind[p] = "submit" =>
      /\ pc[p] = "fillPersonalInfo" => "fill:imei" \in Range(ops[p])
      /\ pc[p] = "extract" => "clickSubmit" \in Range(ops[p])
      /\ err[p] = ErrNoImei =>
           /\ FailedAt(p, 3, ErrNoImei)
           /\ acted[p] \cap {"fill", "selectOption", "checkTerms", "clickSubmit"} = {}
      /\ err[p] = ErrNoSubmit =>
           /\ FailedAt(p, 5, ErrNoSubmit)
           /\ "clickSubmit" \notin acted[p]
           /\ bodyText[p] = None
      /\ (err[p] \in {ErrNoImei, ErrNoSubmit} /\ pc[p] \in {"finally", "done"}) =>
           (~result[p].success /\ result[p].errorMessage = err[p])

\* A submission that found no submit control, after filling the form, returned.
C17_Witness ==
  \E p \in Procs :
    /\ Returned(p) /\ FailedAt(p, 5, ErrNoSubmit)
    /\ "fill" \in acted[p]
    /\ result[p].errorMessage = ErrNoSubmit

C17_WitnessImei ==
  \E p \in Procs : Returned(p) /\ FailedAt(p, 3, ErrNoImei) /\ ~result[p].success

\* The errors a step of the submission can end with, by the step's position:
\* a rejected page call, or the error of the step's required control.
StepErrors ==
  << {TransportError}, {TransportError, ErrNoPath}, {TransportError, ErrNoImei},
     {TransportError}, {TransportError, ErrNoSubmit}, {TransportError, ErrIncomplete} >>

\* C18: the absence of an optional control (continue/next control, confirm
\* e-mail field, terms checkbox) never aborts the submission: no step ends with
\* an error other than a rejected page call or its required control's error, so
\* the step goes on to its next action.
C18_OptionalControlMissingProceeds ==
  \A p \in Procs :
    (kind[p] = "submit" /\ err[p] # None /\ steps[p] # <<>>) =>
      err[p] \in StepErrors[Len(steps[p])]

\* A submission succeeded that never clicked a continue control and never
\* checked a terms box.
C18_Witness ==
  \E p \in Procs :
    /\ Returned(p) /\ kind[p] = "submit" /\ result[p].success
    /\ acted[p] \cap {"clickContinue", "checkTerms"} = {}

\* PersonalInfo completed with none of its fields, the confirm e-mail field
\* included, on the page.
C18_WitnessNoField ==
  \E p \in Procs :
    kind[p] = "submit" /\ pc[p] = "acceptTermsAndSubmit" /\ ops[p] = <<>> /\ err[p] = None

StatusSteps == << "Navigate", "FillImei", "FillRequestId", "SubmitQuery", "Classify" >>

\* C19: the status flow performs, in order, navigate, fill IMEI, fill request
\* id, click submit, classify; a missing IMEI field, request id field or submit
\* control is fatal; any exception at any step yields exactly {success:false,
\* status:'unknown', errorMessage:cause} with no details, and nothing is thrown
\* to the caller.
C19_StatusFlowOrderAndFailure ==
  \A p \in Procs :
    kind[p] = "status" =>
      /\ IsPrefix(steps[p], StatusSteps)
      /\ pc[p] = "fillRequestId" => (Len(steps[p]) = 2 /\ ops[p] = << "fill:imei" >>)
      /\ pc[p] = "submitQuery" => (Len(steps[p]) = 3 /\ ops[p] = << "fill:requestId" >>)
      /\ pc[p] = "classify" =>
           (Len(steps[p]) = 4 /\ ops[p] = << "clickSubmit", "waitForLoadState" >>)
      /\ err[p] # None => pc[p] \in {"catch", "finally", "done"}
      /\ (err[p] # None /\ pc[p] \in {"finally", "done"}) =>
           result[p] = [success |-> FALSE, status |-> "unknown", details |-> None,
                        errorMessage |-> err[p]]
      /\ thrown[p] = None

\* A status check whose page had no request id field returned.
C19_Witness ==
  \E p \in Procs :
    /\ Returned(p) /\ kind[p] = "status"
    /\ err[p] = ErrNoRequestId /\ Len(steps[p]) = 3
    /\ result[p].errorMessage = ErrNoRequestId

\* A keyword of the g-th group occurs in the text, lower-cased.
GroupOccurs(text, g) ==
  \E k \in 1..Len(statusPatterns[g].patterns) :
    includes(toLowerCase(text), statusPatterns[g].patterns[k])

\* The status check of p classified the page text it read.
Classified(p) ==
  /\ kind[p] = "status"
  /\ pc[p] \in {"finally", "done"}
  /\ Len(steps[p]) = Len(StatusSteps)
  /\ bodyText[p] \notin {None, Null, ""}

\* C20: the classifier checks the keyword groups in the order approved,
\* denied, pending and the first group with a keyword in the lower-cased text
\* wins, whatever error keywords occur: approved and error together classify as
\* approved, denied and pending together as denied.
C20_FirstStatusGroupWins ==
  \A p \in Procs :
    Classified(p) =>
      \A g \in 1..Len(statusPatterns) :
        (GroupOccurs(BodyText(p), g) /\ \A h \in 1..(g - 1) : ~GroupOccurs(BodyText(p), h)) =>
          /\ result[p].success
          /\ result[p].status = << "approved", "denied", "pending" >>[g]
          /\ err[p] = None

\* A text with a denied and a pending keyword was classified as denied.
C20_Witness ==
  \E p \in Procs :
    /\ Classified(p)
    /\ GroupOccurs(BodyText(p), 2) /\ GroupOccurs(BodyText(p), 3)
    /\ result[p].status = "denied"

\* A text with an approved and an error keyword was classified as approved.
C20_WitnessError ==
  \E p \in Procs :
    /\ Classified(p)
    /\ GroupOccurs(BodyText(p), 1) /\ SomeIncluded(toLowerCase(BodyText(p)), errorPatterns)
    /\ result[p].status = "approved"

StatusValues == {"approved", "pending", "denied", "unknown"}

\* The status check of p read the body text of the result page (it may be empty).
TextRead(p) ==
  /\ kind[p] = "status"
  /\ pc[p] \in {"finally", "done"}
  /\ Len(steps[p]) = Len(StatusSteps)
  /\ bodyText[p] \notin {None, Null}

\* No keyword of the approved, denied, pending or error group occurs in the text.
NoKeyword(text) ==
  /\ \A g \in 1..Len(statusPatterns) : ~GroupOccurs(text, g)
  /\ ~SomeIncluded(toLowerCase(text), errorPatterns)

UnknownResult ==
  [success |-> TRUE, status |-> "unknown", details |-> UnknownDetails,
   errorMessage |-> None]

\* C21 as stated: whenever the page text holds no keyword of any group, the
\* status flow returns success=true, status 'unknown', the fixed detail and no
\* errorMessage; every StatusResult has one of the four status values.
C21_NoKeywordIsUnknown ==
  \A p \in Procs :
    /\ (TextRead(p) /\ NoKeyword(BodyText(p))) => result[p] = UnknownResult
    /\ (kind[p] = "status" /\ result[p] # NoResult) => result[p].status \in StatusValues

\* C21: whenever the page text is not empty and holds no keyword of any
\* group, the status flow returns success=true, status 'unknown', the fixed
\* detail and no errorMessage, and nothing was caught; every StatusResult has
\* one of the four status values.
C21_NonEmptyNoKeywordIsUnknown ==
  \A p \in Procs :
    /\ (Classified(p) /\ NoKeyword(BodyText(p))) =>
         (result[p] = UnknownResult /\ err[p] = None /\ thrown[p] = None)
    /\ (kind[p] = "status" /\ result[p] # NoResult) => result[p].status \in StatusValues

\* A status check that read a text without keywords returned 'unknown'.
C21_Witness ==
  \E p \in Procs :
    /\ Returned(p) /\ Classified(p) /\ NoKeyword(BodyText(p))
    /\ result[p].status = "unknown" /\ result[p].success

\* C22: a page text with 'pending' and no approved or denied keyword gives
\* status 'pending' with details that are not empty and at most 500 characters
\* long; the details of every StatusResult, when present, are at most 500
\* characters long.
C22_PendingDetailsBounded ==
  \A p \in Procs :
    /\ ( /\ Classified(p)
         /\ includes(toLowerCase(BodyText(p)), "pending")
         /\ ~GroupOccurs(BodyText(p), 1) /\ ~GroupOccurs(BodyText(p), 2) ) =>
         /\ result[p].success
         /\ result[p].status = "pending"
         /\ result[p].details \notin {None, ""}
         /\ Len(result[p].details) <= DetailChars
    /\ (kind[p] = "status" /\ result[p] # NoResult /\ result[p].details # None) =>
         Len(result[p].details) <= DetailChars

\* A pending page whose relevant lines are longer than 500 characters together
\* was classified: its details were cut.
C22_Witness ==
  \E p \in Procs :
    /\ Returned(p) /\ Classified(p)
    /\ includes(toLowerCase(BodyText(p)), "pending")
    /\ Len(BodyText(p)) > DetailChars
    /\ result[p].status = "pending"
    /\ Len(result[p].details) \in (DetailChars - 1)..DetailChars

\* A pending page with short lines was classified: its details are those lines.
C22_WitnessShort ==
  \E p \in Procs :
    /\ Returned(p) /\ Classified(p)
    /\ result[p].status = "pending"
    /\ result[p].details = "Request NUL117557332822 Status: PENDING We are reviewing it Thank you"

\* C23: closePage never throws to its caller: the finally block of a flow,
\* whether page.close() returned or raised, hands the caller the record the
\* flow had set, unchanged, and throws nothing.
C23_CloseFailureSwallowed ==
  [][\A p \in Procs :
       (kind[p] \in Flows /\ pc[p] = "finally" /\ pc'[p] = "done") =>
         /\ result[p] # NoResult
         /\ result'[p] = result[p]
         /\ thrown'[p] = None]_vars

\* A flow returned its record although closing its page failed.
C23_Witness ==
  \E p \in Procs :
    /\ Returned(p)
    /\ closeCalls[p] = 1 /\ pageOpen[p]
    /\ result[p] # NoResult /\ thrown[p] = None

\* C27: path selection only begins while the page is on the entry URL: when the
\* portal redirected the page after the navigation, the flow has brought it
\* back before it selects the path.
C27_PathSelectionOnEntryUrl ==
  \A p \in Procs :
    (kind[p] = "submit" /\ (pc[p] = "selectPath" \/ Len(steps[p]) >= 2)) =>
      landedAt[p] = ATT_UNLOCK_URL

\* The one navigation of the flow does go to the entry URL: path selection never
\* begins before page.goto(ATT_UNLOCK_URL) returned.
C27_NavigatesFirst ==
  \A p \in Procs :
    (kind[p] = "submit" /\ (pc[p] = "selectPath" \/ Len(steps[p]) >= 2)) =>
      ("goto" \in acted[p] /\ landedAt[p] \in Landings(ATT_UNLOCK_URL))

\* The update p serves came from a chat other than the owner's.
FromStranger(p) ==
  update[p].type \in {"message", "callback_query"} /\ update[p].chat # OWNER_ID

\* C24: for every update (text command, plain message or callback query) from
\* a chat other than OWNER_ID, no command handler or callback action runs and
\* the only reply is the private-bot refusal.
C24_OnlyOwnerUsesBot ==
  \A p \in Procs :
    FromStranger(p) =>
      /\ handled[p] = {}
      /\ \A k \in 1..Len(replies[p]) : replies[p][k] = Refusal
      /\ kind[p] = None /\ invocations = 0 /\ stored = <<>>

\* The part of C24 that holds: a text message (command or plain) from a chat
\* other than OWNER_ID runs no handler, starts no flow, stores nothing and is
\* answered with the refusal only.
C24_StrangersMessagesRefused ==
  \A p \in Procs :
    (FromStranger(p) /\ update[p].type = "message") =>
      /\ handled[p] = {}
      /\ \A k \in 1..Len(replies[p]) : replies[p][k] = Refusal
      /\ kind[p] = None /\ invocations = 0 /\ stored = <<>>

\* A front end stored the request of the submission p made.
SubmissionStored(p) ==
  /\ pc[p] = "replied" /\ kind[p] = "submit"
  /\ update[p].type \in {"message", "api"}
  /\ stored # <<>>

\* Absent (undefined in the result, null in the store) or the same value.
Carried(inResult, inStore) ==
  IF inResult \in {None, Null} THEN inStore \in {None, Null} ELSE inStore = inResult

\* C25: after a submission attempt through the API or the bot, the stored
\* unlock request carries the SubmissionResult's captchaDetected flag,
\* errorMessage and confirmation id unchanged.
C25_StoredRequestCarriesResult ==
  \A p \in Procs :
    SubmissionStored(p) =>
      LET last == stored[Len(stored)]
      IN /\ last.captchaDetected = result[p].captchaDetected
         /\ Carried(result[p].errorMessage, last.errorMessage)
         /\ Carried(result[p].requestId, last.requestId)

\* The part of C25 that holds: the stored request carries the validated input
\* and the confirmation id of the result, and its status is 'pending' exactly
\* for a successful submission.
C25_StoredRequestCarriesId ==
  \A p \in Procs :
    SubmissionStored(p) =>
      LET last == stored[Len(stored)]
      IN /\ Carried(result[p].requestId, last.requestId)
         /\ last.imei = request[p].imei /\ last.email = request[p].email
         /\ last.status = (IF result[p].success THEN "pending" ELSE "unknown")

\* The submission an update asks for: the body posted to the API, or what
\* parseSubmissionArgs makes of a /solicitar command.
AsksSubmission(p) ==
  \/ update[p].type = "api"
  \/ update[p].type = "message" /\ ArgsOf(update[p].text, "solicitar") # None

SubmissionInput(p) ==
  IF update[p].type = "api" THEN [err |-> None, value |-> update[p].body]
  ELSE parseSubmissionArgs(ArgsOf(update[p].text, "solicitar"))

\* IMEI of exactly 15 digits, carrier number absent or of exactly 10 digits,
\* well-formed email, names present and not empty.
ValidInput(r) ==
  /\ IsDigits(r.imei, ImeiDigits)
  /\ r.phoneNumber = None \/ IsDigits(r.phoneNumber, PhoneDigits)
  /\ r.email # None /\ IsEmail(r.email)
  /\ r.firstName \notin {None, ""} /\ r.lastName \notin {None, ""}

FailsValidation(p) ==
  AsksSubmission(p) /\ (SubmissionInput(p).err # None \/ ~ValidInput(SubmissionInput(p).value))

\* C26: for a /solicitar command or a POST /api/requests body that fails
\* validation, no page is opened, the portal is never contacted and no unlock
\* request is stored.
C26_FlowStartsOnlyWithValidInput ==
  \A p \in Procs :
    FailsValidation(p) =>
      /\ invocations = 0 /\ kind[p] = None
      /\ launched = 0 /\ ~pageMade[p] /\ ~page[p]
      /\ acted[p] = {} /\ steps[p] = <<>>
      /\ stored = <<>>
      /\ pc[p] = "replied"

\* The owner's /solicitar with an IMEI of 14 digits was answered with the
\* validation error.
C26_Witness ==
  \E p \in Procs :
    /\ update[p].type = "message" /\ update[p].chat = OWNER_ID
    /\ FailsValidation(p)
    /\ SubmissionInput(p).err = None
    /\ Len(SubmissionInput(p).value.imei) = ImeiDigits - 1
    /\ replies[p] = << ValidationError >>

\* A body with a carrier number of 11 digits was answered with 400.
C26_WitnessApi ==
  \E p \in Procs :
    /\ update[p].type = "api" /\ FailsValidation(p)
    /\ update[p].body.phoneNumber # None
    /\ replies[p] = << "400" >>

\* A valid submission went through the flow and was stored.
C26_WitnessValid ==
  \E p \in Procs :
    /\ AsksSubmission(p) /\ ~FailsValidation(p)
    /\ "goto" \in acted[p] /\ Len(stored) = 1

\* p classified a page text: by a call of the classifier by itself, or in the
\* last step of a status check.
HasClassified(p) ==
  \/ kind[p] = "classify"
  \/ /\ kind[p] = "status" /\ pc[p] \in {"finally", "done"}
     /\ Len(steps[p]) = Len(StatusSteps) /\ bodyText[p] # None

ClassifiedText(p) == IF kind[p] = "classify" THEN request[p].text ELSE bodyText[p]

\* What the classifier gave p: the error it threw, or the status and details.
Outcome(p) ==
  LET e == IF kind[p] = "classify" THEN thrown[p] ELSE err[p]
      r == IF kind[p] = "classify" THEN result[p].value ELSE result[p]
  IN IF e # None THEN [err |-> e, status |-> None, details |-> None]
     ELSE [err |-> None, status |-> r.status, details |-> r.details]

NothingAppeared ==
  {ErrNoPath, ErrNoImei, ErrNoSubmit, ErrNoStatusImei, ErrNoRequestId}

\* A page operation of p's invocation timed out and ended the flow's work.
HungPage(p) == err[p] = TransportError \/ err[p] \in NothingAppeared

\* C29, as stated: a returned invocation whose page hung carries success=false
\* and the timeout as its errorMessage.
C29_HungPageIsTimeoutError ==
  \A p \in Procs :
    (Returned(p) /\ HungPage(p)) =>
      (~result[p].success /\ result[p].errorMessage = TransportError)

\* C29: when every awaited operation returns or raises, every invocation of
\* submitUnlockRequest and checkStatus that started returns a result record
\* and throws nothing; the record stays as returned until the caller's next
\* call; and a timeout that reaches the flow's catch block leads to a record
\* with success=false and the timeout as errorMessage.
C29_EveryInvocationReturns ==
  /\ \A p \in FlowCallers :
       (kind[p] \in Flows /\ pc[p] # "done") ~>
         /\ pc[p] = "done" /\ result[p] # NoResult /\ thrown[p] = None
         /\ err[p] = TransportError =>
              (~result[p].success /\ result[p].errorMessage = TransportError)
  /\ [][\A p \in FlowCallers :
          (kind[p] \in Flows /\ pc[p] = "done" /\ pc'[p] = "done") =>
            result'[p] = result[p]]_vars

\* A flow whose page operation timed out returned the failure record.
C29_Witness ==
  \E p \in Procs :
    /\ Returned(p) /\ err[p] = TransportError
    /\ "goto" \in acted[p]
    /\ ~result[p].success /\ result[p].errorMessage = TransportError

\* A resolve call on at least one candidate, followed wait by wait.
Resolving(p) == kind[p] = "waits" /\ Len(resolver[p].selectors) >= 1

\* C30: in a resolve call on N >= 1 candidates with the total timeout T, each
\* wait is given T/N and lasts at most T/N; a wait is started only when none
\* is in flight, and not before the one before it ended; and the waits of the
\* call last at most T together. (Times are in N-ths of a millisecond.)
C30_WaitsWithinTimeout ==
  \A p \in Procs :
    Resolving(p) =>
      LET r == resolver[p]
          N == Len(r.selectors)
          T == r.timeout
      IN /\ r.longest <= T
         /\ r.total <= N * T
         /\ r.clock = r.total
         /\ Cardinality(r.inFlight) <= 1
         /\ pc[p] = "waitForSelector" =>
              /\ r.inFlight = {r.i}
              /\ r.limit.num * N = T * r.limit.den
              /\ r.from >= r.till
         /\ pc[p] # "waitForSelector" => r.inFlight = {}

\* A call with the default timeout on several candidates, none of which
\* appeared: every wait lasted its whole slice, and together they lasted T.
C30_Witness ==
  \E p \in Procs :
    /\ Resolving(p) /\ pc[p] = "done"
    /\ resolver[p].timeout = DefaultTimeout
    /\ Len(resolver[p].selectors) >= 3
    /\ result[p] = [value |-> Null]
    /\ resolver[p].longest = DefaultTimeout
    /\ resolver[p].total = Len(resolver[p].selectors) * DefaultTimeout

\* The values selectMakeModel selected in p's call.
Selected(p) ==
  {ops[p][i] : i \in {j \in 1..Len(ops[p]) : Kind(ops[p][j]) = "selectOption"}}

\* The positions of the options that qualify: a value that is not empty, a
\* label that is there, is not empty and does not contain 'Select'.
Qualifying(options) ==
  {i \in 1..Len(options) :
     /\ options[i].value # ""
     /\ options[i].text \notin {Null, ""}
     /\ \A k \in 1..(Len(options[i].text) - 5) :
          SubSeq(options[i].text, k, k + 5) # "Select"}

\* C31: the make/model step selects nothing but the first option, in document
\* order, that qualifies; with no selector resolved or no qualifying option it
\* selects nothing; and in every case, the ones where reading or selecting
\* raised included, it returns without an error.
C31_FirstValidOptionSelected ==
  \A p \in Procs :
    kind[p] = "selectMakeModel" =>
      LET options == request[p].options
          first == {i \in Qualifying(options) : \A j \in Qualifying(options) : i <= j}
      IN /\ pc[p] = "done" /\ thrown[p] = None /\ err[p] = None
         /\ Selected(p) \subseteq {"selectOption:" \o options[i].value : i \in first}
         /\ (request[p].selector = Null \/ Qualifying(options) = {}) => Selected(p) = {}
         /\ Selected(p) # {} => ops[p][1] = "$$eval"

\* A list whose first qualifying option is its second (an empty label before
\* it, another qualifying option after it): that one was selected.
C31_Witness ==
  \E p \in Procs :
    /\ kind[p] = "selectMakeModel"
    /\ Len(request[p].options) = 3
    /\ request[p].options[2].text = "select Motorola"
    /\ Selected(p) = {"selectOption:moto"}

\* Nothing was selected although an option qualified: selecting raised.
C31_WitnessRaised ==
  \E p \in Procs :
    /\ kind[p] = "selectMakeModel"
    /\ Qualifying(request[p].options) # {}
    /\ ops[p] = << "$$eval" >>

RecognisedStatuses == {"approved", "denied", "pending"}

\* The details snippet as the specification words it, for the page text and
\* the status recognised in it.
StatedDetails(pageText, status) ==
  LET lines == Lines(pageText)
      words == {"status", "estado", "request", "solicitud", status}
      hits == {i \in 1..Len(lines) :
                 \E w \in words : includes(toLowerCase(lines[i]), toLowerCase(w))}
      covered == {k \in 1..Len(lines) : \E i \in hits : i - 1 <= k /\ k <= i + 2}
      kept == {k \in covered : \A m \in covered : m < k => lines[m] # lines[k]}
      nth(n) == CHOOSE k \in kept : Cardinality({m \in kept : m < k}) = n - 1
      count == IF Cardinality(kept) < 5 THEN Cardinality(kept) ELSE 5
      joined == join([n \in 1..count |-> lines[nth(n)]])
  IN trim(SubSeq(joined, 1, IF Len(joined) < 500 THEN Len(joined) ELSE 500))

\* StatedDetails on every page text and status, computed once.
StatedTable ==
  { <<text, status, StatedDetails(text, status)>> :
      text \in {t \in StatusTexts : t \notin {Null, ""}}, status \in RecognisedStatuses }
DetailsAsStated(text, status) ==
  (CHOOSE e \in StatedTable : e[1] = text /\ e[2] = status)[3]

\* C32: for a recognised status the details of the result are the snippet as
\* stated: of the non-empty trimmed lines, each line that mentions 'status',
\* 'estado', 'request', 'solicitud' or the status value (case aside) brings its
\* predecessor, itself and its two successors, a line text already collected
\* is skipped, the first five collected are joined with single spaces, and the
\* result is cut to 500 characters and trimmed.
C32_DetailsSnippetAsStated ==
  \A p \in Procs :
    (Classified(p) /\ err[p] = None /\ result[p].status \in RecognisedStatuses) =>
      result[p].details = DetailsAsStated(BodyText(p), result[p].status)

\* A page with three such lines whose contexts overlap, a line text that comes
\* twice and more than five lines collected.
C32_Witness ==
  \E p \in Procs :
    /\ Classified(p) /\ Returned(p) /\ result[p].status = "approved"
    /\ Len(Lines(BodyText(p))) = 10
    /\ result[p].details = "Intro Request NUL1 AT&T Status: approved Details follow"

\* The bot reported the success of the flow it called for p's command.
SuccessReported(p) ==
  /\ pc[p] = "replied" /\ update[p].type = "message"
  /\ kind[p] \in Flows /\ result[p].success

\* The last message the bot sent for p's update.
LastReply(p) == replies[p][Len(replies[p])]

\* C33: the IMEI shown in a reply is the first six digits, three dots and then
\* the whole IMEI, not its last four digits: every reply that reports a
\* success shows the complete 15-digit IMEI.
C33_MaskedImeiShowsWholeImei ==
  \A p \in Procs :
    SuccessReported(p) =>
      LET imei == request[p].imei
      IN /\ Len(imei) = ImeiDigits
         /\ includes(LastReply(p),
                     " " \o SubSeq(imei, 1, 6) \o "..." \o imei \o "\n")
         /\ ~includes(LastReply(p),
                      " " \o SubSeq(imei, 1, 6) \o "..." \o SubSeq(imei, 12, 15) \o "\n")

\* A submission was reported with the whole IMEI in the reply.
C33_Witness ==
  \E p \in Procs :
    /\ SuccessReported(p) /\ kind[p] = "submit"
    /\ LastReply(p) =
         "*Solicitud enviada exitosamente*\n*IMEI:* 353012...353012345678901\n"

\* A status was reported for another IMEI, whole in the reply as well.
C33_WitnessStatus ==
  \E p \in Procs :
    /\ SuccessReported(p) /\ kind[p] = "status"
    /\ LastReply(p) = "*Estado de la solicitud*\n*IMEI:* 490154...490154203237518\n"

\* No keyword of the approved, denied or pending group occurs in the text, and
\* an error keyword does (case aside).
ErrorKeywordOnly(text) ==
  /\ \A g \in 1..Len(statusPatterns) : ~GroupOccurs(text, g)
  /\ \E w \in {"error", "not found", "invalid", "incorrect", "wrong", "incorrecto",
                "inválido"} : includes(toLowerCase(text), w)

\* C34: a status page text with an error keyword and no keyword of a status
\* group makes the status flow return success=false, status 'unknown', the
\* errorMessage that asks to verify IMEI and request id, and no details; the
\* flow throws nothing.
C34_ErrorKeywordFailsCheck ==
  \A p \in Procs :
    (Classified(p) /\ ErrorKeywordOnly(BodyText(p))) =>
      /\ err[p] = ErrStatusQuery /\ thrown[p] = None
      /\ result[p] = [success |-> FALSE, status |-> "unknown", details |-> None,
                      errorMessage |-> ErrStatusQuery]

\* The page showed an error keyword in upper case, and the check returned.
C34_Witness ==
  \E p \in Procs :
    /\ Classified(p) /\ Returned(p)
    /\ bodyText[p] = "IMEI INVÁLIDO"
    /\ ~result[p].success /\ result[p].errorMessage = ErrStatusQuery

\* The launched browsers whose close() has not returned.
OpenBrowsers == (1..launched) \ torn.browsers

\* The calls were made one after another: only one caller ever called.
OneCaller == \A q \in Procs \ FlowCallers : pc[q] = "idle"

\* C35: with the calls made one after another, at most one launched browser
\* is not closed, and a launched browser that is not closed is the one the
\* manager's field holds.
C35_NoBrowserLeaked ==
  OneCaller =>
    /\ Cardinality(OpenBrowsers) <= 1
    /\ \A b \in OpenBrowsers : browser = b

\* C36: with the calls made one after another, when cleanup has returned
\* after the close() of the context it found failed, the context and the
\* browser fields are both cleared.
C36_CleanupClearsWhenContextCloseFails ==
  OneCaller =>
    \A p \in FlowCallers :
      (/\ kind[p] = "cleanup"
       /\ pc[p] = "done"
       /\ pageCtx[p] # 0
       /\ pageCtx[p] \notin torn.contexts)
      => (context = 0 /\ browser = 0)

\* The stored request a finished status check was made on: the one the API
\* was given the id of, or the first one with the request id the bot was given.
CheckedRequest(p) ==
  IF update[p].type = "check" THEN {update[p].id}
  ELSE LET same == {k \in 1..Len(stored) : stored[k].requestId = request[p].requestId}
       IN {k \in same : \A j \in same : k <= j}

\* A status check asked for through the bot or the API has been answered.
CheckAnswered(p) == pc[p] = "replied" /\ kind[p] = "status"

\* C37: after a status check on a stored request, through the API or the bot,
\* the stored status is the status of the returned result and lastCheckedAt is
\* the instant of the update; after a failed check the stored status is
\* 'unknown' and statusDetails is null.
C37_StoredStatusFollowsCheck ==
  \A p \in FlowCallers :
    CheckAnswered(p) =>
      \A k \in CheckedRequest(p) :
        /\ stored[k].status = result[p].status
        /\ stored[k].lastCheckedAt \in Instants
        /\ ~result[p].success =>
             (stored[k].status = "unknown" /\ stored[k].statusDetails = Null)

\* A failed check through the API overwrote the status an earlier check stored.
C37_Witness ==
  \E p \in FlowCallers :
    /\ CheckAnswered(p) /\ update[p].type = "check" /\ ~result[p].success
    /\ Len(stored) = 2 /\ CheckedRequest(p) = {2}
    /\ stored[2].status = "unknown" /\ stored[2].statusDetails = Null

\* A failed check through the bot did, and a successful one stored its details.
C37_WitnessBot ==
  \E p \in FlowCallers :
    /\ CheckAnswered(p) /\ update[p].type = "message" /\ ~result[p].success
    /\ Len(stored) = 2 /\ CheckedRequest(p) = {2}
    /\ stored[2].status = "unknown" /\ stored[2].lastCheckedAt \in Instants

\* The ids of the logs held.
HeldLogs == {systemLogs[i].id : i \in 1..Len(systemLogs)}

\* C38: the log store holds at most the limit of logs, and they are the ones
\* created last, the log just created among them.
C38_NewestLogsKept ==
  /\ Len(systemLogs) <= MaxLogs
  /\ HeldLogs = {id \in 1..logsCreated : id > logsCreated - MaxLogs}

\* The parts of C38 taken one by one: the size (which holds), and the log
\* just created being held.
C38_AtMostLimit == Len(systemLogs) <= MaxLogs
C38_CreatedLogRetained == logsCreated > 0 => logsCreated \in HeldLogs

\* What the flow does to the form: filling, selecting, checking, submitting.
FormActions == {"fill", "selectOption", "checkTerms", "clickSubmit"}

\* C39: a submission goes past path selection only after clicking a path
\* control; one that resolved none stands after that step with the path error,
\* has touched no form field, terms box or submit control, and returns
\* success=false with that error as errorMessage.
C39_NoPathControlAborts ==
  \A p \in FlowCallers :
    kind[p] = "submit" =>
      /\ Len(steps[p]) >= 3 => "clickPath" \in acted[p]
      /\ (Len(steps[p]) = 2 /\ "clickPath" \notin acted[p]) =>
           (pc[p] \in {"catch", "finally", "done"} /\ err[p] \in {ErrNoPath, TransportError})
      /\ err[p] = ErrNoPath =>
           /\ FailedAt(p, 2, ErrNoPath)
           /\ acted[p] \cap FormActions = {}
           /\ "clickPath" \notin acted[p] /\ "clickContinue" \notin acted[p]
           /\ pc[p] \in {"finally", "done"} =>
                (/\ ~result[p].success
                 /\ result[p].errorMessage = ErrNoPath
                 /\ result[p].requestId = None)

\* A submission that resolved no path control returned.
C39_Witness ==
  \E p \in FlowCallers :
    /\ Returned(p) /\ FailedAt(p, 2, ErrNoPath)
    /\ acted[p] \cap FormActions = {}
    /\ ~result[p].success /\ result[p].errorMessage = ErrNoPath

====
